---- MODULE Spec2Model ----
(***************************************************************************)
(* State-machine model of the live media-graph runtime                     *)
(* (senders/android/src/migration): the node manager, the four node kinds  *)
(* with their schedule state machines and live-pipeline reconciliation,    *)
(* and the per-(producer, medium) stream bridges the manager maintains.    *)
(*                                                                         *)
(* Time is the wall clock in whole seconds.  One dispatch or tick reads    *)
(* the clock once: every Utc::now() inside one handler returns the value   *)
(* of `now`, and the clock advances between handlers (ClockAdvance); only  *)
(* in SpecAcross does it also advance inside a dispatch (DispatchAcross).  *)
(* The streaming framework is modelled by what the manager observes of it: *)
(* whether it is initialised (gst), and for each node whether a live       *)
(* pipeline exists, the state it was last set to and the application       *)
(* sources it exposes, and the Error and end-of-stream messages waiting on *)
(* its bus.  Element construction and state changes succeed; messages are  *)
(* posted between handlers, in the specifications that have BusMessage.    *)
(* The stream bridge at the grain of its mutexes, the manager lock, the    *)
(* command endpoint and the refresh and endpoint threads of the runtime    *)
(* have specifications of their own further down.                          *)
(***************************************************************************)
EXTENDS Integers, Sequences, FiniteSets, TLC

VARIABLES now, gst, started, nodes, links, media_bridges, released, last, scheduled,
          consumers, attached_sink, last_caps, callbacks, appsrcs, new_sample,
          manager_thread, emitted,
          manager_lock, threads,
          evaluation,
          stopping,
          http,
          runtime

(* The node manager behind handle_command. *)
managerVars == <<now, gst, started, nodes, links, media_bridges, released, last,
                scheduled>>

(* One stream bridge, its producer sinks and its consumers' sources. *)
bridgeVars == <<consumers, attached_sink, last_caps, callbacks, appsrcs, new_sample,
                manager_thread, emitted>>

(* The manager mutex and the threads that take it. *)
lockVars == <<manager_lock, threads>>

vars == <<managerVars, bridgeVars, lockVars, evaluation, stopping, http, runtime>>

(***************************************************************************)
(* Bounds of the model.                                                    *)
(***************************************************************************)
MaxTime == 30
ClockStep == 10
EndAt == 10
CueAt == 30
MaxPoints == 1

(***************************************************************************)
(* Program constants.                                                      *)
(***************************************************************************)
PREROLL_LEAD_TIME_SECONDS == 10
DefaultWidth == 1920
DefaultHeight == 1080
DefaultSampleRate == 48000
DefaultFallbackTimeout == 500

None == "none"
NoTime == -1

(***************************************************************************)
(* serde_json::Value restricted to numbers and strings.                    *)
(***************************************************************************)
JNum(n) == [t |-> "number", n |-> n, s |-> ""]
JStr(s) == [t |-> "string", n |-> 0, s |-> s]
is_number(v) == v.t = "number"
is_string(v) == v.t = "string"

Ok == [type |-> "Success", msg |-> ""]
Err(m) == [type |-> "Error", msg |-> m]
IsErr(r) == r.type = "Error"

(* Option<LivePipeline>: state is the state last set on the pipeline, bus  *)
(* the Error and Eos messages pending on its bus, oldest first.            *)
NoPipeline == [present |-> FALSE, state |-> "Null", slots |-> {}, bus |-> << >>]

(***************************************************************************)
(* Finite maps as functions; HashMap::insert replaces an existing key.     *)
(***************************************************************************)
MapInsert(f, k, v) == [x \in (DOMAIN f) \cup {k} |-> IF x = k THEN v ELSE f[x]]
MapRemove(f, k) == [x \in (DOMAIN f) \ {k} |-> f[x]]
EmptyMap == [x \in {} |-> 0]

(***************************************************************************)
(* Node records.  One record shape serves the four kinds; a field a kind   *)
(* does not own keeps its constructor value.  `stage` is the stage of the  *)
(* pipeline profile, has_profile tells whether a destination's profile     *)
(* has been built (Option<DestinationPipelineProfile>).                    *)
(***************************************************************************)
BaseNode(kind, id, audio, video) ==
  [kind |-> kind, id |-> id, audio_enabled |-> audio, video_enabled |-> video,
   audio_consumer_slot_ids |-> {}, video_consumer_slot_ids |-> {},
   audio_slot_id |-> None, video_slot_id |-> None,
   cue_time |-> NoTime, end_time |-> NoTime, state |-> "Initial",
   has_profile |-> TRUE, stage |-> "Idle", live_pipeline |-> NoPipeline,
   released |-> {}, last_error |-> None,
   settings |-> EmptyMap, control_points |-> EmptyMap, slots |-> EmptyMap,
   slot_settings |-> EmptyMap, slot_control_points |-> EmptyMap]

SourceNode_new(id, audio, video) == BaseNode("Source", id, audio, video)

VideoGeneratorNode_new(id) == BaseNode("VideoGenerator", id, FALSE, TRUE)

DestinationNode_new(id, audio, video) ==
  [BaseNode("Destination", id, audio, video) EXCEPT !.has_profile = FALSE]

SettingKeys == {"width", "height", "sample-rate", "fallback-image", "fallback-timeout"}

validate_setting_value(name, value) ==
  IF name \in {"width", "height", "sample-rate", "fallback-timeout"}
  THEN IF is_number(value) THEN Ok ELSE Err("Setting expects a numeric value")
  ELSE IF name = "fallback-image"
  THEN IF is_string(value) THEN Ok ELSE Err("Setting fallback-image expects a string value")
  ELSE Err("No setting with name on mixers")

DefaultSettings ==
  [k \in SettingKeys |->
     CASE k = "width" -> JNum(DefaultWidth)
       [] k = "height" -> JNum(DefaultHeight)
       [] k = "sample-rate" -> JNum(DefaultSampleRate)
       [] k = "fallback-image" -> JStr("")
       [] OTHER -> JNum(DefaultFallbackTimeout)]

(* The first entry of a config map that fails validation decides the error; *)
(* the maps used here have at most one entry, so the iteration order of the *)
(* HashMap cannot change the outcome.                                       *)
ConfigErrors(cfg, check(_, _)) == {check(k, cfg[k]) : k \in DOMAIN cfg} \ {Ok}

MergeMap(base, over) ==
  [k \in (DOMAIN base) \cup (DOMAIN over) |-> IF k \in DOMAIN over THEN over[k] ELSE base[k]]

(* MixerNode::new returns the node or the first validation error. *)
MixerNode_new(id, config, audio, video) ==
  LET errs == ConfigErrors(config, validate_setting_value)
  IN IF errs # {}
     THEN [res |-> CHOOSE e \in errs : TRUE, node |-> BaseNode("Mixer", id, audio, video)]
     ELSE [res |-> Ok,
           node |-> [BaseNode("Mixer", id, audio, video)
                       EXCEPT !.settings = MergeMap(DefaultSettings, config)]]

(***************************************************************************)
(* Control points (nodes/control.rs).  A series is a sequence of           *)
(* [id, time, value, mode]; numbers are integers and the interpolated      *)
(* value is rounded down to an integer.                                    *)
(***************************************************************************)
NoValue == [t |-> "none", n |-> 0, s |-> ""]

Clamp(x, lo, hi) == IF x < lo THEN lo ELSE IF x > hi THEN hi ELSE x

interpolate_values_Start(start, end, elapsed, total) ==
  IF is_number(start) /\ is_number(end) THEN start ELSE NoValue

interpolate_values(start, end, elapsed, total) ==
  IF is_number(start) /\ is_number(end)
  THEN JNum(start.n + ((end.n - start.n) * Clamp(elapsed, 0, total)) \div total)
  ELSE NoValue

unwrap_or(value, default) == IF value # NoValue THEN value ELSE default

(* The tail of evaluate_control_points, after the loop has found the       *)
(* current point and the point after it (0 for none).                      *)
evaluate_between(points, at, current, after) ==
  IF points[current].mode = "interpolate" /\ after # 0
     /\ points[after].time - points[current].time > 0
  THEN unwrap_or(interpolate_values(points[current].value, points[after].value,
                                    IF at - points[current].time > 0
                                    THEN at - points[current].time ELSE 0,
                                    points[after].time - points[current].time),
                 points[current].value)
  ELSE points[current].value

(* The loop of evaluate_control_points, from index i on. *)
RECURSIVE ScanPoints(_, _, _, _, _)
ScanPoints(points, at, i, before, after) ==
  IF i > Len(points)
  THEN evaluate_between(points, at, IF before # 0 THEN before ELSE after, after)
  ELSE IF points[i].time <= at
  THEN ScanPoints(points, at, i + 1,
                  IF before = 0 \/ points[i].time >= points[before].time THEN i ELSE before,
                  after)
  ELSE ScanPoints(points, at, i + 1, before,
                  IF after = 0 \/ points[i].time < points[after].time THEN i ELSE after)

evaluate_control_points_First(points, at) ==
  IF Len(points) = 0 THEN NoValue ELSE points[1].value

evaluate_control_points(points, at) ==
  IF Len(points) = 0 THEN NoValue ELSE ScanPoints(points, at, 1, 0, 0)

(* Vec::push followed by the stable Vec::sort on time (impl Ord for        *)
(* ControlPoint): the new point lands after every point with time <= its   *)
(* own.                                                                    *)
RECURSIVE SortedInsert(_, _)
SortedInsert(points, cp) ==
  IF Len(points) = 0 THEN <<cp>>
  ELSE IF points[Len(points)].time <= cp.time THEN Append(points, cp)
  ELSE Append(SortedInsert(SubSeq(points, 1, Len(points) - 1), cp), points[Len(points)])

RetainOthers(points, controller_id) == SelectSeq(points, LAMBDA p : p.id # controller_id)

(***************************************************************************)
(* Slot property names "media-type::property-name".  SplitKey is           *)
(* property.splitn(2, "::") on the names the commands use; a name without  *)
(* the separator splits into itself.                                       *)
(***************************************************************************)
SplitKey(k) ==
  CASE k = "video::x" -> <<"video", "x">>
    [] k = "video::y" -> <<"video", "y">>
    [] k = "video::width" -> <<"video", "width">>
    [] k = "video::height" -> <<"video", "height">>
    [] k = "video::alpha" -> <<"video", "alpha">>
    [] k = "video::zorder" -> <<"video", "zorder">>
    [] k = "audio::volume" -> <<"audio", "volume">>
    [] k = "text::x" -> <<"text", "x">>
    [] OTHER -> <<k>>

parse_slot_config_key_AnyMedia(property) ==
  [res |-> Ok, is_video |-> SplitKey(property)[1] = "video", property |-> property]

(* parse_slot_config_key: Ok with (is_video, property) or an error. *)
parse_slot_config_key(property) ==
  LET split == SplitKey(property)
  IN IF Len(split) = 2
     THEN IF split[1] = "video" THEN [res |-> Ok, is_video |-> TRUE, property |-> split[2]]
          ELSE IF split[1] = "audio" THEN [res |-> Ok, is_video |-> FALSE, property |-> split[2]]
          ELSE [res |-> Err("Slot property media type must be one of [audio, video]"),
                is_video |-> FALSE, property |-> ""]
     ELSE [res |-> Err("Slot property name must be in form media-type::property-name"),
           is_video |-> FALSE, property |-> ""]

validate_slot_value(is_video, property, value) ==
  IF is_video
  THEN IF property \in {"x", "y", "width", "height", "zorder", "alpha"}
       THEN IF is_number(value) THEN Ok ELSE Err("video property expects a numeric value")
       ELSE Ok
  ELSE IF property = "volume"
       THEN IF is_number(value) THEN Ok ELSE Err("audio::volume expects a numeric value")
       ELSE Ok

slot_has_media(slot, media) ==
  \E key \in DOMAIN slot : Len(SplitKey(key)) = 2 /\ SplitKey(key)[1] = media

(***************************************************************************)
(* Schedule state machines.                                                *)
(***************************************************************************)
(* Source, mixer and video generator share one transition function. *)
(* schedule_transition_due without the preroll lead. *)
SourceNode_schedule_transition_due_NoLead(node, t) ==
  CASE node.state = "Initial" ->
         IF node.cue_time = NoTime \/ t >= node.cue_time THEN "Starting" ELSE None
    [] node.state = "Starting" -> "Started"
    [] node.state = "Started" ->
         IF node.end_time # NoTime /\ t >= node.end_time THEN "Stopping" ELSE None
    [] node.state = "Stopping" -> "Stopped"
    [] OTHER -> None

SourceNode_schedule_transition_due(node, t) ==
  CASE node.state = "Initial" ->
         IF node.cue_time # NoTime
         THEN IF t >= node.cue_time - PREROLL_LEAD_TIME_SECONDS THEN "Starting" ELSE None
         ELSE "Started"
    [] node.state = "Starting" ->
         IF node.cue_time = NoTime \/ t >= node.cue_time THEN "Started" ELSE None
    [] node.state = "Started" ->
         IF node.end_time # NoTime /\ t >= node.end_time THEN "Stopping" ELSE None
    [] node.state = "Stopping" -> "Stopped"
    [] OTHER -> None

(* The destination taking the transitions of a source, preroll included. *)
DestinationNode_schedule_transition_due_Preroll(node, t) ==
  SourceNode_schedule_transition_due(node, t)

DestinationNode_schedule_transition_due(node, t) ==
  CASE node.state = "Initial" ->
         IF node.cue_time = NoTime \/ t >= node.cue_time THEN "Starting" ELSE None
    [] node.state = "Starting" -> "Started"
    [] node.state = "Started" ->
         IF node.end_time # NoTime /\ t >= node.end_time THEN "Stopping" ELSE None
    [] node.state = "Stopping" -> "Stopped"
    [] OTHER -> None

(* What the drop of a live pipeline leaves behind: its state unless the    *)
(* pipeline was set to Null.  A node's `released` collects them.           *)
Released(live) == IF live.present /\ live.state # "Null" THEN {live.state} ELSE {}

(* teardown_live_pipeline dropping the pipeline it takes as it is. *)
teardown_live_pipeline_Taken(node) ==
  [node EXCEPT !.live_pipeline = NoPipeline,
               !.released = @ \cup Released(node.live_pipeline)]

(* take() the pipeline, set it to Null, drop it. *)
teardown_live_pipeline(node) ==
  [node EXCEPT !.live_pipeline = NoPipeline,
               !.released = @ \cup Released([node.live_pipeline EXCEPT !.state = "Null"])]

(* Stage of the profile for a state: Source/VideoGenerator use Prerolling, *)
(* the mixer calls the same stage Starting.                                *)
SourceNode_apply_state_to_stage(node) ==
  [node EXCEPT !.stage =
     CASE node.state = "Starting" -> IF node.kind = "Mixer" THEN "Starting" ELSE "Prerolling"
       [] node.state = "Started" -> "Playing"
       [] OTHER -> "Idle"]

DestinationNode_apply_state_to_stage(node) ==
  IF node.has_profile
  THEN [node EXCEPT !.stage = IF node.state \in {"Starting", "Started"} THEN "Playing" ELSE "Idle"]
  ELSE node

RECURSIVE SourceNode_advance_loop(_, _)
SourceNode_advance_loop(node, t) ==
  LET next_state == SourceNode_schedule_transition_due(node, t)
  IN IF next_state = None \/ next_state = node.state THEN node
     ELSE SourceNode_advance_loop([node EXCEPT !.state = next_state], t)

(* advance_schedule taking one transition where the loop takes all that   *)
(* are due.                                                                *)
SourceNode_advance_schedule_Once(node, t) ==
  SourceNode_apply_state_to_stage(
    IF SourceNode_schedule_transition_due(node, t) = None THEN node
    ELSE [node EXCEPT !.state = SourceNode_schedule_transition_due(node, t)])

SourceNode_advance_schedule(node, t) ==
  SourceNode_apply_state_to_stage(SourceNode_advance_loop(node, t))

PipelineError == "pipeline error"

(* wait_for_eos_on_stop: with a profile and a live pipeline the            *)
(* destination enters Stopping, sends end-of-stream and waits on the bus   *)
(* for one message; an Error message is recorded.  The wait is over when   *)
(* stop goes on.                                                           *)
DestinationNode_wait_for_eos_on_stop(node) ==
  IF node.has_profile /\ node.live_pipeline.present
  THEN [node EXCEPT
          !.state = "Stopping",
          !.last_error = IF node.live_pipeline.bus # << >>
                            /\ Head(node.live_pipeline.bus) = "error"
                         THEN PipelineError ELSE @,
          !.live_pipeline.bus = IF @ = << >> THEN @ ELSE Tail(@)]
  ELSE node

DestinationNode_stop(node) ==
  LET torn == teardown_live_pipeline(DestinationNode_wait_for_eos_on_stop(node))
  IN [torn EXCEPT !.state = "Stopped",
                  !.stage = IF torn.has_profile THEN "Idle" ELSE torn.stage]

RECURSIVE DestinationNode_advance_loop(_, _)
DestinationNode_advance_loop(node, t) ==
  LET next_state == DestinationNode_schedule_transition_due(node, t)
  IN IF next_state = None \/ next_state = node.state THEN node
     ELSE IF next_state = "Stopping"
     THEN DestinationNode_stop([node EXCEPT !.state = "Stopping"])
     ELSE DestinationNode_advance_loop([node EXCEPT !.state = next_state], t)

DestinationNode_advance_schedule(node, t) ==
  DestinationNode_apply_state_to_stage(DestinationNode_advance_loop(node, t))

SourceNode_stop(node) ==
  [teardown_live_pipeline(node) EXCEPT !.stage = "Idle", !.state = "Stopped"]

NodeRecord_stop(node) ==
  IF node.kind = "Destination" THEN DestinationNode_stop(node) ELSE SourceNode_stop(node)

NodeRecord_mark_error(node, message) == [node EXCEPT !.last_error = message]

(***************************************************************************)
(* Live-pipeline reconciliation.  g is the streaming-framework             *)
(* environment: g.initialized is gst_is_initialized(), g.fallbacksrc       *)
(* tells whether the fallbacksrc element can be constructed.               *)
(***************************************************************************)
(* poll_bus_messages returns Err: an Error message is pending. *)
poll_fails(node) ==
  /\ node.live_pipeline.present
  /\ \E i \in DOMAIN node.live_pipeline.bus : node.live_pipeline.bus[i] = "error"

(* poll_bus_messages draining the bus and no more. *)
poll_bus_messages_Drained(node) == [node EXCEPT !.live_pipeline.bus = << >>]

(* poll_bus_messages of every kind: the bus is drained; an Error message   *)
(* records the error and stops the node, an Eos message stops it.  The     *)
(* stage of a destination lives in its profile.                            *)
poll_bus_messages(node) ==
  IF ~node.live_pipeline.present \/ node.live_pipeline.bus = << >> THEN node
  ELSE [teardown_live_pipeline(node) EXCEPT
          !.last_error = IF poll_fails(node) THEN PipelineError ELSE @,
          !.state = "Stopped",
          !.stage = IF node.has_profile THEN "Idle" ELSE @]

(* ensure_live_pipeline and set_state(target): a pipeline is built only    *)
(* when the node holds none.  sync_live_pipeline polls the bus once more   *)
(* after set_state; with messages posted between handlers that poll finds  *)
(* what the first one left on the bus.                                     *)
set_live_state(node, target) ==
  [node EXCEPT !.live_pipeline =
     [present |-> TRUE, state |-> target,
      slots |-> node.live_pipeline.slots, bus |-> node.live_pipeline.bus]]

SourceNode_reconcile(node, g) ==
  IF node.stage = "Idle" THEN teardown_live_pipeline(node)
  ELSE poll_bus_messages(
         set_live_state(node,
           IF node.stage = "Prerolling" /\ node.kind = "Source" /\ g.fallbacksrc
           THEN "Playing"
           ELSE IF node.stage = "Prerolling" THEN "Paused" ELSE "Playing"))

(* The Result of sync_live_pipeline: Err when the first poll finds an      *)
(* Error message.  refresh_runtime, disconnect_input_slot and the removal  *)
(* of a control point store the message as last_error, which the poll has  *)
(* done already.                                                           *)
sync_result(node, g) ==
  IF g.initialized /\ poll_fails(node) THEN Err(PipelineError) ELSE Ok

SourceNode_sync_live_pipeline(node, g) ==
  IF ~g.initialized THEN node
  ELSE IF poll_fails(node) THEN poll_bus_messages(node)
  ELSE SourceNode_reconcile(poll_bus_messages(node), g)

SourceNode_synced(node, g) ==
  [res |-> sync_result(node, g), node |-> SourceNode_sync_live_pipeline(node, g)]

DestinationNode_reconcile(node) ==
  IF ~node.has_profile \/ node.stage = "Idle" THEN teardown_live_pipeline(node)
  ELSE poll_bus_messages(
         set_live_state(node, IF node.stage = "Scheduled" THEN "Paused" ELSE "Playing"))

DestinationNode_sync_live_pipeline(node, g) ==
  IF ~g.initialized THEN node
  ELSE IF poll_fails(node) THEN poll_bus_messages(node)
  ELSE DestinationNode_reconcile(poll_bus_messages(node))

DestinationNode_synced(node, g) ==
  [res |-> sync_result(node, g), node |-> DestinationNode_sync_live_pipeline(node, g)]

(* The application sources build_live_pipeline creates, one per slot and   *)
(* medium the slot settings name.                                          *)
MixerNode_build_slots(node) ==
  {sm \in (DOMAIN node.slot_settings) \X {"audio", "video"} :
     /\ (sm[2] = "video" => node.video_enabled)
     /\ (sm[2] = "audio" => node.audio_enabled)
     /\ slot_has_media(node.slot_settings[sm[1]], sm[2])}

LiveSlotIds(live) == {sm[1] : sm \in live.slots}

MixerNode_live_slots_match_model(node) ==
  /\ node.live_pipeline.present
  /\ Cardinality(LiveSlotIds(node.live_pipeline)) = Cardinality(DOMAIN node.slot_settings)
  /\ \A slot_id \in DOMAIN node.slot_settings : slot_id \in LiveSlotIds(node.live_pipeline)

(* teardown_live_pipeline, then the pipeline build_live_pipeline makes. *)
MixerNode_rebuilt(node) ==
  [teardown_live_pipeline(node) EXCEPT
     !.live_pipeline = [present |-> TRUE, state |-> "Null",
                        slots |-> MixerNode_build_slots(node), bus |-> << >>]]

MixerNode_reconcile(node) ==
  IF node.stage = "Idle" THEN teardown_live_pipeline(node)
  ELSE poll_bus_messages(
         set_live_state(IF ~MixerNode_live_slots_match_model(node)
                        THEN MixerNode_rebuilt(node) ELSE node,
                        IF node.stage = "Starting" THEN "Paused" ELSE "Playing"))

MixerNode_sync_live_pipeline(node, g) ==
  IF ~g.initialized THEN node
  ELSE IF poll_fails(node) THEN poll_bus_messages(node)
  ELSE MixerNode_reconcile(poll_bus_messages(node))

MixerNode_synced(node, g) ==
  [res |-> sync_result(node, g), node |-> MixerNode_sync_live_pipeline(node, g)]

(***************************************************************************)
(* MixerNode::apply_control_points: every series that evaluates to a value *)
(* overwrites its setting; an audio::volume slot series also overwrites    *)
(* the slot's volume mirror.                                               *)
(***************************************************************************)
as_f64_or(value, default) == IF is_number(value) THEN value.n ELSE default

Defined(values) == [k \in {k \in DOMAIN values : values[k] # NoValue} |-> values[k]]

(* The updates a map of series yields at a time: property -> value. *)
Updates(series, at) ==
  Defined([property \in DOMAIN series |-> evaluate_control_points(series[property], at)])

GetOr(map, key, default) == IF key \in DOMAIN map THEN map[key] ELSE default

(* The slot update without the volume mirror. *)
SlotVolume_Unmirrored(slot, updates) == slot

SlotVolume(slot, updates) ==
  IF "audio::volume" \in DOMAIN updates
  THEN [slot EXCEPT !.volume = as_f64_or(updates["audio::volume"], @)]
  ELSE slot

(* The second loop of apply_control_points, over the slot updates          *)
(* collected as slot id -> (property -> value).                            *)
apply_slot_updates(node, slot_updates) ==
  [node EXCEPT
     !.slot_settings =
       [slot_id \in (DOMAIN @) \cup (DOMAIN slot_updates) |->
          MergeMap(GetOr(@, slot_id, EmptyMap), GetOr(slot_updates, slot_id, EmptyMap))],
     !.slots =
       [slot_id \in DOMAIN @ |->
          SlotVolume(@[slot_id], GetOr(slot_updates, slot_id, EmptyMap))]]

NonEmpty(maps) == [k \in {k \in DOMAIN maps : maps[k] # EmptyMap} |-> maps[k]]

MixerNode_apply_control_points(node, at) ==
  apply_slot_updates(
    [node EXCEPT !.settings = MergeMap(@, Updates(node.control_points, at))],
    NonEmpty([slot_id \in DOMAIN node.slot_control_points |->
                Updates(node.slot_control_points[slot_id], at)]))

(***************************************************************************)
(* refresh and schedule of each kind.                                      *)
(***************************************************************************)
SourceNode_refresh(node, t, g) ==
  SourceNode_sync_live_pipeline(SourceNode_advance_schedule(node, t), g)

DestinationNode_refresh(node, t, g) ==
  DestinationNode_sync_live_pipeline(DestinationNode_advance_schedule(node, t), g)

MixerNode_refresh(node, t, g) ==
  MixerNode_sync_live_pipeline(
    SourceNode_advance_schedule(MixerNode_apply_control_points(node, t), t), g)

(* schedule without the reset of a node that ran before. *)
ResetIfScheduledBefore_Never(node) == node

(* The head of every schedule(): a node that is Starting, Stopping or      *)
(* Stopped goes back to Initial.                                           *)
ResetIfScheduledBefore(node) ==
  IF node.state \in {"Starting", "Stopping", "Stopped"}
  THEN [node EXCEPT !.state = "Initial"] ELSE node

(* refresh_runtime resetting the node as schedule() does. *)
NodeRecord_refresh_runtime_Resetting(node, t, g) ==
  CASE node.kind = "Destination" ->
         DestinationNode_refresh(ResetIfScheduledBefore(node), t, g)
    [] node.kind = "Mixer" -> MixerNode_refresh(ResetIfScheduledBefore(node), t, g)
    [] OTHER -> SourceNode_refresh(ResetIfScheduledBefore(node), t, g)

NodeRecord_refresh_runtime(node, t, g) ==
  CASE node.kind = "Destination" -> DestinationNode_refresh(node, t, g)
    [] node.kind = "Mixer" -> MixerNode_refresh(node, t, g)
    [] OTHER -> SourceNode_refresh(node, t, g)

SourceNode_schedule(node, cue_time, end_time, t, g) ==
  LET stored == [node EXCEPT !.cue_time = cue_time, !.end_time = end_time, !.last_error = None]
  IN SourceNode_synced(SourceNode_advance_schedule(ResetIfScheduledBefore(stored), t), g)

MixerNode_schedule(node, cue_time, end_time, t, g) ==
  LET stored == [node EXCEPT !.cue_time = cue_time, !.end_time = end_time, !.last_error = None]
      applied == MixerNode_apply_control_points(stored, t)
  IN MixerNode_synced(SourceNode_advance_schedule(ResetIfScheduledBefore(applied), t), g)

DestinationNode_ensure_start_ready(node) ==
  IF node.audio_enabled /\ node.audio_slot_id = None
  THEN Err("Destination must have its audio slot connected before starting")
  ELSE IF node.video_enabled /\ node.video_slot_id = None
  THEN Err("Destination must have its video slot connected before starting")
  ELSE Ok

(* schedule storing the times before it validates the slots. *)
DestinationNode_schedule_StoreFirst(node, cue_time, end_time, t, g) ==
  IF IsErr(DestinationNode_ensure_start_ready(node))
  THEN [res |-> DestinationNode_ensure_start_ready(node),
        node |-> [node EXCEPT !.cue_time = cue_time, !.end_time = end_time]]
  ELSE DestinationNode_synced(
         DestinationNode_advance_schedule(
           [ResetIfScheduledBefore(
              [node EXCEPT !.cue_time = cue_time, !.end_time = end_time,
                           !.last_error = None])
              EXCEPT !.has_profile = TRUE, !.stage = "Idle"], t), g)

DestinationNode_schedule(node, cue_time, end_time, t, g) ==
  IF IsErr(DestinationNode_ensure_start_ready(node))
  THEN [res |-> DestinationNode_ensure_start_ready(node), node |-> node]
  ELSE LET stored == [node EXCEPT !.cue_time = cue_time, !.end_time = end_time,
                                  !.last_error = None]
           profiled == [ResetIfScheduledBefore(stored) EXCEPT !.has_profile = TRUE,
                                                              !.stage = "Idle"]
       IN DestinationNode_synced(DestinationNode_advance_schedule(profiled, t), g)

NodeRecord_set_schedule(node, cue_time, end_time, t, g) ==
  CASE node.kind = "Destination" -> DestinationNode_schedule(node, cue_time, end_time, t, g)
    [] node.kind = "Mixer" -> MixerNode_schedule(node, cue_time, end_time, t, g)
    [] OTHER -> SourceNode_schedule(node, cue_time, end_time, t, g)

(***************************************************************************)
(* Link bookkeeping of the node kinds.                                     *)
(***************************************************************************)
(* connect_input mutates the destination in place: when the video check    *)
(* fails, the audio slot it has just taken stays taken.                    *)
DestinationNode_connect_input(node, link_id, audio, video) ==
  IF audio /\ node.audio_slot_id # None
  THEN [res |-> Err("Destination already has an audio input slot"), node |-> node]
  ELSE LET a == IF audio THEN [node EXCEPT !.audio_slot_id = link_id] ELSE node
       IN IF video /\ a.video_slot_id # None
          THEN [res |-> Err("Destination already has a video input slot"), node |-> a]
          ELSE [res |-> Ok,
                node |-> IF video THEN [a EXCEPT !.video_slot_id = link_id] ELSE a]

DestinationNode_disconnect_input(node, link_id) ==
  [node EXCEPT !.audio_slot_id = IF @ = link_id THEN None ELSE @,
               !.video_slot_id = IF @ = link_id THEN None ELSE @]

as_i64_or(value, default) == IF is_number(value) THEN value.n ELSE default

MixerNode_default_slot_settings(node, audio, video) ==
  LET width == IF "width" \in DOMAIN node.settings
               THEN as_i64_or(node.settings["width"], DefaultWidth) ELSE DefaultWidth
      height == IF "height" \in DOMAIN node.settings
                THEN as_i64_or(node.settings["height"], DefaultHeight) ELSE DefaultHeight
      vkeys == IF video THEN {"video::x", "video::y", "video::width", "video::height",
                              "video::alpha", "video::zorder"} ELSE {}
      akeys == IF audio THEN {"audio::volume"} ELSE {}
  IN [k \in vkeys \cup akeys |->
        CASE k = "video::width" -> JNum(width)
          [] k = "video::height" -> JNum(height)
          [] k \in {"video::alpha", "audio::volume"} -> JNum(1)
          [] OTHER -> JNum(0)]

MixerNode_connect_input_slot(node, link_id, audio, video, slot_config, g) ==
  LET check(key, value) ==
        LET parsed == parse_slot_config_key(key)
        IN IF IsErr(parsed.res) THEN parsed.res
           ELSE IF parsed.is_video /\ ~video
           THEN Err("Cannot set key on link; video is not enabled for this link")
           ELSE IF ~parsed.is_video /\ ~audio
           THEN Err("Cannot set key on link; audio is not enabled for this link")
           ELSE validate_slot_value(parsed.is_video, parsed.property, value)
      errs == ConfigErrors(slot_config, check)
      merged == MergeMap(MixerNode_default_slot_settings(node, audio, video), slot_config)
      volume == IF "audio::volume" \in DOMAIN merged
                THEN as_f64_or(merged["audio::volume"], 1) ELSE 1
      stored == [node EXCEPT
                   !.slots = IF audio \/ video \/ link_id \in DOMAIN node.slots
                             THEN MapInsert(@, link_id, [volume |-> volume]) ELSE @,
                   !.slot_settings = MapInsert(@, link_id, merged),
                   !.slot_control_points =
                     IF link_id \in DOMAIN @ THEN @ ELSE MapInsert(@, link_id, EmptyMap)]
  IN IF errs # {}
     THEN [res |-> CHOOSE e \in errs : TRUE, node |-> node]
     ELSE MixerNode_synced(stored, g)

MixerNode_disconnect_input_slot(node, link_id, g) ==
  MixerNode_sync_live_pipeline(
    [node EXCEPT !.slots = MapRemove(@, link_id),
                 !.slot_settings = MapRemove(@, link_id),
                 !.slot_control_points = MapRemove(@, link_id)], g)

NodeRecord_add_consumer_link(node, link_id, audio, video) ==
  IF node.kind = "Destination" THEN node
  ELSE [node EXCEPT
          !.audio_consumer_slot_ids = IF audio THEN @ \cup {link_id} ELSE @,
          !.video_consumer_slot_ids = IF video THEN @ \cup {link_id} ELSE @]

NodeRecord_remove_consumer_link(node, link_id) ==
  IF node.kind = "Destination" THEN node
  ELSE [node EXCEPT !.audio_consumer_slot_ids = @ \ {link_id},
                    !.video_consumer_slot_ids = @ \ {link_id}]

(***************************************************************************)
(* Control points of a mixer and of its slots.                             *)
(***************************************************************************)
SeriesOf(series, property) == IF property \in DOMAIN series THEN series[property] ELSE << >>

(* add_control_point pushing the point before it validates the value. *)
MixerNode_add_control_point_PushFirst(node, property, cp, t, g) ==
  IF property \notin DOMAIN node.settings
  THEN [res |-> Err("Mixer has no setting with name"), node |-> node]
  ELSE [res |-> validate_setting_value(property, cp.value),
        node |-> [node EXCEPT !.control_points =
                    MapInsert(@, property, SortedInsert(SeriesOf(@, property), cp))]]

MixerNode_add_control_point(node, property, cp, t, g) ==
  IF property \notin DOMAIN node.settings
  THEN [res |-> Err("Mixer has no setting with name"), node |-> node]
  ELSE IF IsErr(validate_setting_value(property, cp.value))
  THEN [res |-> validate_setting_value(property, cp.value), node |-> node]
  ELSE LET pushed == [node EXCEPT !.control_points =
                        MapInsert(@, property, SortedInsert(SeriesOf(@, property), cp))]
       IN MixerNode_synced(MixerNode_apply_control_points(pushed, t), g)

MixerNode_remove_control_point(node, controller_id, property, t, g) ==
  LET retained == [node EXCEPT !.control_points =
                     IF property \in DOMAIN @
                     THEN MapInsert(@, property, RetainOthers(@[property], controller_id))
                     ELSE @]
  IN MixerNode_sync_live_pipeline(MixerNode_apply_control_points(retained, t), g)

MixerNode_add_slot_control_point(node, slot_id, property, cp, t, g) ==
  LET parsed == parse_slot_config_key(property)
      slot == IF slot_id \in DOMAIN node.slot_control_points
              THEN node.slot_control_points[slot_id] ELSE EmptyMap
      pushed == [node EXCEPT !.slot_control_points =
                   MapInsert(@, slot_id,
                             MapInsert(slot, property, SortedInsert(SeriesOf(slot, property), cp)))]
  IN IF slot_id \notin DOMAIN node.slot_settings
     THEN [res |-> Err("Mixer has no slot with id"), node |-> node]
     ELSE IF IsErr(parsed.res) THEN [res |-> parsed.res, node |-> node]
     ELSE IF IsErr(validate_slot_value(parsed.is_video, parsed.property, cp.value))
     THEN [res |-> validate_slot_value(parsed.is_video, parsed.property, cp.value),
           node |-> node]
     ELSE MixerNode_synced(MixerNode_apply_control_points(pushed, t), g)

MixerNode_remove_slot_control_point(node, controller_id, slot_id, property, t, g) ==
  LET retained == [node EXCEPT !.slot_control_points =
                     IF slot_id \in DOMAIN @ /\ property \in DOMAIN @[slot_id]
                     THEN MapInsert(@, slot_id,
                            MapInsert(@[slot_id], property,
                                      RetainOthers(@[slot_id][property], controller_id)))
                     ELSE @]
  IN MixerNode_sync_live_pipeline(MixerNode_apply_control_points(retained, t), g)

(***************************************************************************)
(* Stream bridges as the manager sees them: the ids of the registered      *)
(* consumers and the producer whose sink is attached.                      *)
(***************************************************************************)
NewBridge == [consumers |-> {}, attached_sink |-> None]

bridge_key(src_id, media) == <<src_id, media>>

StreamBridge_attach_sink(bridge, sink) == [bridge EXCEPT !.attached_sink = sink]
StreamBridge_add_consumer(bridge, consumer_id) == [bridge EXCEPT !.consumers = @ \cup {consumer_id}]
StreamBridge_remove_consumer(bridge, consumer_id) == [bridge EXCEPT !.consumers = @ \ {consumer_id}]
StreamBridge_has_consumers(bridge) == bridge.consumers # {}

(* The producing sink of a node for a medium, named by the node id, or None. *)
NodeRecord_output_appsink(node, media) ==
  IF ~node.live_pipeline.present THEN None
  ELSE CASE node.kind \in {"Source", "Mixer"} ->
              IF (media = "audio" /\ node.audio_enabled) \/ (media = "video" /\ node.video_enabled)
              THEN node.id ELSE None
         [] node.kind = "VideoGenerator" -> IF media = "video" THEN node.id ELSE None
         [] OTHER -> None

(* Whether the sink node exposes a live application source for the link. *)
NodeRecord_input_appsrc(node, link_id, media) ==
  /\ node.live_pipeline.present
  /\ CASE node.kind = "Destination" ->
            (media = "audio" /\ node.audio_enabled) \/ (media = "video" /\ node.video_enabled)
       [] node.kind = "Mixer" -> <<link_id, media>> \in node.live_pipeline.slots
       [] OTHER -> FALSE

remove_media_bridge_link_one(bridges, src_id, link_id, media) ==
  LET key == bridge_key(src_id, media)
  IN IF key \notin DOMAIN bridges THEN bridges
     ELSE IF StreamBridge_has_consumers(StreamBridge_remove_consumer(bridges[key], link_id))
     THEN [bridges EXCEPT ![key] = StreamBridge_remove_consumer(@, link_id)]
     ELSE MapRemove(bridges, key)

remove_media_bridge_link(bridges, src_id, link_id, audio, video) ==
  LET a == IF audio THEN remove_media_bridge_link_one(bridges, src_id, link_id, "audio")
           ELSE bridges
  IN IF video THEN remove_media_bridge_link_one(a, src_id, link_id, "video") ELSE a

LinkHas(link, media) == IF media = "audio" THEN link.audio ELSE link.video

SyncLinkMedia(bridges, nds, link_id, link, media) ==
  IF ~LinkHas(link, media) THEN bridges
  ELSE LET key == bridge_key(link.src_id, media)
           bridge == IF key \in DOMAIN bridges THEN bridges[key] ELSE NewBridge
           sink == NodeRecord_output_appsink(nds[link.src_id], media)
           attached == IF sink # None THEN StreamBridge_attach_sink(bridge, sink) ELSE bridge
       IN MapInsert(bridges, key,
            IF NodeRecord_input_appsrc(nds[link.sink_id], link_id, media)
            THEN StreamBridge_add_consumer(attached, link_id)
            ELSE StreamBridge_remove_consumer(attached, link_id))

SyncLink(bridges, nds, link_id, link) ==
  IF link.src_id \notin DOMAIN nds \/ link.sink_id \notin DOMAIN nds
  THEN remove_media_bridge_link(bridges, link.src_id, link_id, link.audio, link.video)
  ELSE SyncLinkMedia(SyncLinkMedia(bridges, nds, link_id, link, "audio"),
                     nds, link_id, link, "video")

RECURSIVE SyncLinks(_, _, _, _)
SyncLinks(bridges, nds, lks, todo) ==
  IF todo = {} THEN bridges
  ELSE LET link_id == CHOOSE l \in todo : TRUE
       IN SyncLinks(SyncLink(bridges, nds, link_id, lks[link_id]), nds, lks, todo \ {link_id})

sync_media_links(m, g) ==
  IF ~g.initialized THEN m
  ELSE LET synced == SyncLinks(m.media_bridges, m.nodes, m.links, DOMAIN m.links)
           kept == {key \in DOMAIN synced : StreamBridge_has_consumers(synced[key])}
       IN [m EXCEPT !.media_bridges = [key \in kept |-> synced[key]]]

refresh_nodes(m, t, g) ==
  [m EXCEPT !.nodes = [id \in DOMAIN m.nodes |-> NodeRecord_refresh_runtime(m.nodes[id], t, g)]]

(***************************************************************************)
(* The node manager.  m is [nodes, links, media_bridges, released]; a      *)
(* command handler returns the manager it leaves and its CommandResult.    *)
(* released records what the manager has dropped: the pipelines of removed *)
(* nodes with the state they were dropped in and, at shutdown, the         *)
(* pipelines and bridges that were still held.                             *)
(***************************************************************************)
(* can_output_audio without the flag of the node. *)
NodeRecord_can_output_audio_Unflagged(node) == node.kind # "Destination"

NodeRecord_can_output_audio(node) == node.kind # "Destination" /\ node.audio_enabled
NodeRecord_can_output_video(node) == node.kind # "Destination" /\ node.video_enabled
NodeRecord_can_input_audio(node) == node.kind \in {"Destination", "Mixer"} /\ node.audio_enabled
NodeRecord_can_input_video(node) == node.kind \in {"Destination", "Mixer"} /\ node.video_enabled

NodeRecord_to_info(node) ==
  [kind |-> node.kind, state |-> node.state, cue_time |-> node.cue_time,
   end_time |-> node.end_time, slots |-> node.slots, slot_settings |-> node.slot_settings]

Info(nds) == [type |-> "Info", msg |-> "", nodes |-> nds]

(* ensure_unique_id without its test. *)
ensure_unique_id_Skipped(m, id) == Ok

ensure_unique_id(m, id) ==
  IF id \in DOMAIN m.nodes THEN Err("A node already exists with id") ELSE Ok

create_video_generator(m, id) ==
  IF IsErr(ensure_unique_id(m, id)) THEN [m |-> m, res |-> ensure_unique_id(m, id)]
  ELSE [m |-> [m EXCEPT !.nodes = MapInsert(@, id, VideoGeneratorNode_new(id))], res |-> Ok]

create_source(m, id, audio, video) ==
  IF IsErr(ensure_unique_id(m, id)) THEN [m |-> m, res |-> ensure_unique_id(m, id)]
  ELSE IF ~audio /\ ~video
  THEN [m |-> m, res |-> Err("Source must have either audio or video enabled")]
  ELSE [m |-> [m EXCEPT !.nodes = MapInsert(@, id, SourceNode_new(id, audio, video))],
        res |-> Ok]

create_destination(m, id, audio, video) ==
  IF IsErr(ensure_unique_id(m, id)) THEN [m |-> m, res |-> ensure_unique_id(m, id)]
  ELSE IF ~audio /\ ~video
  THEN [m |-> m, res |-> Err("Destination must have either audio or video enabled")]
  ELSE [m |-> [m EXCEPT !.nodes = MapInsert(@, id, DestinationNode_new(id, audio, video))],
        res |-> Ok]

create_mixer(m, id, config, audio, video) ==
  IF IsErr(ensure_unique_id(m, id)) THEN [m |-> m, res |-> ensure_unique_id(m, id)]
  ELSE IF ~audio /\ ~video
  THEN [m |-> m, res |-> Err("Mixer must have either audio or video enabled")]
  ELSE LET made == MixerNode_new(id, config, audio, video)
       IN IF IsErr(made.res) THEN [m |-> m, res |-> made.res]
          ELSE [m |-> [m EXCEPT !.nodes = MapInsert(@, id, made.node)], res |-> Ok]

LinkRecord(src_id, sink_id, audio, video, config) ==
  [src_id |-> src_id, sink_id |-> sink_id, audio |-> audio, video |-> video,
   config |-> config]

(* The update of the sink node in connect: a destination takes the link    *)
(* into its slots, a mixer opens an input slot.                            *)
connect_sink_update(node, link_id, audio, video, config, g) ==
  CASE node.kind = "Destination" -> DestinationNode_connect_input(node, link_id, audio, video)
    [] node.kind = "Mixer" ->
         MixerNode_connect_input_slot(node, link_id, audio, video, config, g)
    [] OTHER -> [res |-> Err("Node is not a consumer"), node |-> node]

connect(m, link_id, src_id, sink_id, audio, video, config, g) ==
  IF ~audio /\ ~video
  THEN [m |-> m, res |-> Err("Link must have either audio or video enabled")]
  ELSE IF link_id \in DOMAIN m.links
  THEN [m |-> m, res |-> Err("A link already exists with id")]
  ELSE IF src_id \notin DOMAIN m.nodes THEN [m |-> m, res |-> Err("No producer with id")]
  ELSE IF sink_id \notin DOMAIN m.nodes THEN [m |-> m, res |-> Err("No consumer with id")]
  ELSE IF audio /\ (~NodeRecord_can_output_audio(m.nodes[src_id])
                    \/ ~NodeRecord_can_input_audio(m.nodes[sink_id]))
  THEN [m |-> m,
        res |-> Err("Link requested audio, but source/sink capabilities do not match")]
  ELSE IF video /\ (~NodeRecord_can_output_video(m.nodes[src_id])
                    \/ ~NodeRecord_can_input_video(m.nodes[sink_id]))
  THEN [m |-> m,
        res |-> Err("Link requested video, but source/sink capabilities do not match")]
  ELSE LET sink_update ==
             connect_sink_update(m.nodes[sink_id], link_id, audio, video, config, g)
           with_sink == [m.nodes EXCEPT ![sink_id] = sink_update.node]
       IN IF IsErr(sink_update.res)
          THEN [m |-> [m EXCEPT !.nodes = with_sink], res |-> sink_update.res]
          ELSE [m |-> [m EXCEPT
                         !.nodes = [with_sink EXCEPT ![src_id] =
                                      NodeRecord_add_consumer_link(@, link_id, audio, video)],
                         !.links = MapInsert(@, link_id,
                                     LinkRecord(src_id, sink_id, audio, video, config))],
                res |-> Ok]

disconnect_sink_update(node, link_id, g) ==
  CASE node.kind = "Destination" -> DestinationNode_disconnect_input(node, link_id)
    [] node.kind = "Mixer" -> MixerNode_disconnect_input_slot(node, link_id, g)
    [] OTHER -> node

disconnect(m, link_id, g) ==
  IF link_id \notin DOMAIN m.links THEN [m |-> m, res |-> Err("No link with id")]
  ELSE LET link == m.links[link_id]
           without_src ==
             IF link.src_id \in DOMAIN m.nodes
             THEN [m.nodes EXCEPT ![link.src_id] = NodeRecord_remove_consumer_link(@, link_id)]
             ELSE m.nodes
           without_sink ==
             IF link.sink_id \in DOMAIN without_src
             THEN [without_src EXCEPT ![link.sink_id] = disconnect_sink_update(@, link_id, g)]
             ELSE without_src
       IN [m |-> [m EXCEPT
                    !.nodes = without_sink,
                    !.links = MapRemove(m.links, link_id),
                    !.media_bridges = remove_media_bridge_link(m.media_bridges, link.src_id,
                                                               link_id, link.audio, link.video)],
           res |-> Ok]

(* schedule_node after set_schedule: a failure is recorded on the node. *)
schedule_result(m, id, set) ==
  IF IsErr(set.res)
  THEN [m |-> [m EXCEPT !.nodes[id] = NodeRecord_mark_error(set.node, set.res.msg)],
        res |-> set.res]
  ELSE [m |-> [m EXCEPT !.nodes[id] = set.node], res |-> Ok]

schedule_node(m, id, cue_time, end_time, t, g) ==
  IF id \notin DOMAIN m.nodes THEN [m |-> m, res |-> Err("No node with id")]
  ELSE schedule_result(m, id, NodeRecord_set_schedule(m.nodes[id], cue_time, end_time, t, g))

(* What the drop of nodes leaves behind: (node id, state) of every         *)
(* pipeline a dropped node holds or has released without setting it to     *)
(* Null.  The manager's `released` collects them.                          *)
ReleasedBy(nds, ids) ==
  {<<id, state>> : id \in ids, state \in {"Paused", "Playing"}} \cap
  UNION {{<<id, state>> : state \in nds[id].released \cup Released(nds[id].live_pipeline)} :
           id \in ids}

RECURSIVE DisconnectAll(_, _, _)
DisconnectAll(m, link_ids, g) ==
  IF link_ids = {} THEN m
  ELSE LET link_id == CHOOSE l \in link_ids : TRUE
       IN DisconnectAll(disconnect(m, link_id, g).m, link_ids \ {link_id}, g)

remove_node(m, id, g) ==
  IF id \notin DOMAIN m.nodes THEN [m |-> m, res |-> Err("No node with id")]
  ELSE LET stopped == [m EXCEPT !.nodes[id] = NodeRecord_stop(@)]
           link_ids == {l \in DOMAIN m.links :
                          m.links[l].src_id = id \/ m.links[l].sink_id = id}
           cut == DisconnectAll(stopped, link_ids, g)
       IN [m |-> [cut EXCEPT !.nodes = MapRemove(@, id),
                             !.released = @ \cup ReleasedBy(cut.nodes, {id})],
           res |-> Ok]

get_info(m, id) ==
  IF id = None
  THEN [m |-> m, res |-> Info([n \in DOMAIN m.nodes |-> NodeRecord_to_info(m.nodes[n])])]
  ELSE IF id \notin DOMAIN m.nodes THEN [m |-> m, res |-> Err("No node with id")]
  ELSE [m |-> m, res |-> Info([n \in {id} |-> NodeRecord_to_info(m.nodes[n])])]

ControlPoint(id, time, value, mode) == [id |-> id, time |-> time, value |-> value, mode |-> mode]

add_control_point(m, controllee_id, property, control_point, t, g) ==
  IF controllee_id \in DOMAIN m.links
  THEN LET sink_id == m.links[controllee_id].sink_id
       IN IF sink_id \notin DOMAIN m.nodes
          THEN [m |-> m, res |-> Err("No sink node with id for link")]
          ELSE IF m.nodes[sink_id].kind = "Mixer"
          THEN LET added == MixerNode_add_slot_control_point(
                              m.nodes[sink_id], controllee_id, property, control_point, t, g)
               IN [m |-> [m EXCEPT !.nodes[sink_id] = added.node], res |-> added.res]
          ELSE [m |-> m,
                res |-> Err("Slot control points are only supported for mixer links")]
  ELSE IF controllee_id \notin DOMAIN m.nodes
  THEN [m |-> m, res |-> Err("No node or slot with id")]
  ELSE IF m.nodes[controllee_id].kind = "Mixer"
  THEN LET added == MixerNode_add_control_point(
                      m.nodes[controllee_id], property, control_point, t, g)
       IN [m |-> [m EXCEPT !.nodes[controllee_id] = added.node], res |-> added.res]
  ELSE [m |-> m,
        res |-> Err("Node control points are currently supported only for mixers")]

remove_control_point(m, controller_id, controllee_id, property, t, g) ==
  IF controllee_id \in DOMAIN m.links
  THEN LET sink_id == m.links[controllee_id].sink_id
       IN IF sink_id \notin DOMAIN m.nodes
          THEN [m |-> m, res |-> Err("No sink node with id for link")]
          ELSE IF m.nodes[sink_id].kind = "Mixer"
          THEN [m |-> [m EXCEPT !.nodes[sink_id] =
                         MixerNode_remove_slot_control_point(
                           @, controller_id, controllee_id, property, t, g)],
                res |-> Ok]
          ELSE [m |-> m,
                res |-> Err("Slot control points are only supported for mixer links")]
  ELSE IF controllee_id \notin DOMAIN m.nodes
  THEN [m |-> m, res |-> Err("No node or slot with id")]
  ELSE IF m.nodes[controllee_id].kind = "Mixer"
  THEN [m |-> [m EXCEPT !.nodes[controllee_id] =
                 MixerNode_remove_control_point(@, controller_id, property, t, g)],
        res |-> Ok]
  ELSE [m |-> m,
        res |-> Err("Node control points are currently supported only for mixers")]

(* The match of dispatch: the handler of the command. *)
execute(m, command, t, g) ==
  CASE command.type = "createvideogenerator" -> create_video_generator(m, command.id)
    [] command.type = "createsource" ->
         create_source(m, command.id, command.audio, command.video)
    [] command.type = "createdestination" ->
         create_destination(m, command.id, command.audio, command.video)
    [] command.type = "createmixer" ->
         create_mixer(m, command.id, command.config, command.audio, command.video)
    [] command.type = "connect" ->
         connect(m, command.link_id, command.src_id, command.sink_id, command.audio,
                 command.video, command.config, g)
    [] command.type = "disconnect" -> disconnect(m, command.link_id, g)
    [] command.type \in {"start", "reschedule"} ->
         schedule_node(m, command.id, command.cue_time, command.end_time, t, g)
    [] command.type = "remove" -> remove_node(m, command.id, g)
    [] command.type = "getinfo" -> get_info(m, command.id)
    [] command.type = "addcontrolpoint" ->
         add_control_point(m, command.controllee_id, command.property,
                           command.control_point, t, g)
    [] OTHER ->
         remove_control_point(m, command.id, command.controllee_id, command.property, t, g)

(* dispatch after the match on the command: sync the media links unless    *)
(* the command was getinfo, refresh again, hand back the result.           *)
dispatch_finish(command, done, t, g) ==
  [m |-> refresh_nodes(IF command.type # "getinfo"
                       THEN sync_media_links(done.m, g) ELSE done.m, t, g),
   res |-> done.res]

dispatch(m, command, t, g) ==
  dispatch_finish(command, execute(refresh_nodes(m, t, g), command, t, g), t, g)

(* tick without refresh_nodes. *)
tick_Unrefreshed(m, t, g) == sync_media_links(m, g)

tick(m, t, g) == sync_media_links(refresh_nodes(m, t, g), g)

(***************************************************************************)
(* Commands (protocol.rs) and the inputs the actions draw them from.       *)
(***************************************************************************)
Command_CreateVideoGenerator(id) == [type |-> "createvideogenerator", id |-> id]
Command_CreateSource(id, audio, video) ==
  [type |-> "createsource", id |-> id, audio |-> audio, video |-> video]
Command_CreateDestination(id, audio, video) ==
  [type |-> "createdestination", id |-> id, audio |-> audio, video |-> video]
Command_CreateMixer(id, config, audio, video) ==
  [type |-> "createmixer", id |-> id, config |-> config, audio |-> audio, video |-> video]
Command_Connect(link_id, src_id, sink_id, audio, video, config) ==
  [type |-> "connect", link_id |-> link_id, src_id |-> src_id, sink_id |-> sink_id,
   audio |-> audio, video |-> video, config |-> config]
Command_Disconnect(link_id) == [type |-> "disconnect", link_id |-> link_id]
Command_Start(id, cue_time, end_time) ==
  [type |-> "start", id |-> id, cue_time |-> cue_time, end_time |-> end_time]
Command_Reschedule(id, cue_time, end_time) ==
  [type |-> "reschedule", id |-> id, cue_time |-> cue_time, end_time |-> end_time]
Command_Remove(id) == [type |-> "remove", id |-> id]
Command_GetInfo(id) == [type |-> "getinfo", id |-> id]
Command_AddControlPoint(controllee_id, property, control_point) ==
  [type |-> "addcontrolpoint", controllee_id |-> controllee_id, property |-> property,
   control_point |-> control_point]
Command_RemoveControlPoint(id, controllee_id, property) ==
  [type |-> "removecontrolpoint", id |-> id, controllee_id |-> controllee_id,
   property |-> property]

Config(key, value) == [k \in {key} |-> value]

MixerConfigs ==
  {EmptyMap, Config("width", JNum(1280)), Config("width", JStr("wide")),
   Config("bitrate", JNum(1))}

SlotConfigs ==
  {EmptyMap, Config("audio::volume", JNum(2)), Config("audio::volume", JStr("loud")),
   Config("x", JNum(1))}

Points == {ControlPoint("cp1", 0, JNum(640), "set"), ControlPoint("cp1", 0, JStr("wide"), "set")}

(* Commands of the graph specification: three node ids, two link ids,     *)
(* every kind of node, links of every shape between them.                  *)
GraphCommands ==
  {Command_CreateVideoGenerator("n1"), Command_CreateSource("n1", TRUE, TRUE),
   Command_CreateDestination("n2", TRUE, TRUE), Command_CreateDestination("n3", FALSE, TRUE),
   Command_CreateMixer("n3", EmptyMap, TRUE, TRUE),
   Command_Connect("l2", "n2", "n1", FALSE, TRUE, EmptyMap),
   Command_Start("n2", CueAt, EndAt), Command_Reschedule("n2", NoTime, NoTime),
   Command_GetInfo(None),
   Command_AddControlPoint("n1", "width", ControlPoint("cp1", 0, JNum(640), "set")),
   Command_RemoveControlPoint("cp1", "n1", "width")}
  \cup {Command_Connect("l1", "n1", "n2", av[1], av[2], EmptyMap) :
          av \in {<<TRUE, TRUE>>, <<FALSE, TRUE>>, <<FALSE, FALSE>>}}
  \cup {Command_Connect("l2", src_id, sink_id, av[1], av[2], EmptyMap) :
          src_id \in {"n1", "n3"}, sink_id \in {"n2", "n3"},
          av \in {<<TRUE, TRUE>>, <<FALSE, TRUE>>}}
  \cup {Command_Disconnect(link_id) : link_id \in {"l1", "l2"}}
  \cup {Command_Remove(id) : id \in {"n1", "n2", "n3"}}

(* Commands of the validation specification: a producer, a video          *)
(* destination and a mixer, one link into each consumer, and for every     *)
(* command the arguments its validation accepts and those it refuses.      *)
ValidationCommands ==
  {Command_CreateVideoGenerator("n1"), Command_CreateSource("n1", TRUE, TRUE),
   Command_CreateDestination("n2", FALSE, TRUE),
   Command_Connect("l1", "n1", "n2", FALSE, TRUE, EmptyMap),
   Command_Connect("l1", "n1", "n2", TRUE, FALSE, EmptyMap),
   Command_Connect("l2", "n1", "n3", FALSE, TRUE, Config("audio::volume", JNum(2))),
   Command_Start("n2", NoTime, NoTime), Command_Start("n3", CueAt, EndAt),
   Command_Reschedule("n1", CueAt, NoTime)}
  \cup {Command_CreateMixer("n3", config, TRUE, TRUE) : config \in MixerConfigs}
  \cup {Command_Connect("l2", "n1", "n3", TRUE, TRUE, config) : config \in SlotConfigs}
  \cup {Command_Disconnect(link_id) : link_id \in {"l1", "l2"}}
  \cup {Command_Remove(id) : id \in {"n1", "n3"}}
  \cup {Command_GetInfo(id) : id \in {None, "n1"}}
  \cup {Command_AddControlPoint(controllee_id, property, control_point) :
          controllee_id \in {"n1", "n3", "l1", "l2"},
          property \in {"width", "bitrate", "audio::volume"}, control_point \in Points}
  \cup {Command_RemoveControlPoint("cp1", controllee_id, property) :
          controllee_id \in {"n1", "n3", "l1", "l2"}, property \in {"width", "audio::volume"}}

(* Commands of the schedule specification: one producer of any kind, one   *)
(* video destination, one link, every combination of cue and end time.     *)
ScheduleCommands ==
  {Command_CreateVideoGenerator("n1"), Command_CreateSource("n1", TRUE, TRUE),
   Command_CreateMixer("n1", EmptyMap, TRUE, TRUE), Command_CreateDestination("n2", FALSE, TRUE),
   Command_Connect("l1", "n1", "n2", FALSE, TRUE, EmptyMap), Command_Disconnect("l1"),
   Command_Remove("n1"), Command_Remove("n2"), Command_GetInfo(None),
   Command_AddControlPoint("n1", "width", ControlPoint("cp1", CueAt, JNum(640), "set")),
   Command_RemoveControlPoint("cp1", "n1", "width")}
  \cup {Command_Start(id, cue_time, end_time) :
          id \in {"n1", "n2"}, cue_time \in {NoTime, CueAt}, end_time \in {NoTime, EndAt}}
  \cup {Command_Reschedule(id, cue_time, NoTime) : id \in {"n1", "n2"}, cue_time \in {NoTime, CueAt}}

(* The streaming framework of the process: initialised by the library     *)
(* entry point (lib.rs), with its elements available; not initialised in   *)
(* a process that never called the entry point.                            *)
GstInitialized == [initialized |-> TRUE, fallbacksrc |-> TRUE]

GstNotInitialized == [initialized |-> FALSE, fallbacksrc |-> FALSE]

(***************************************************************************)
(* The state machine.  now is the wall clock, gst the streaming-framework  *)
(* environment of the process, started/nodes/links/media_bridges the       *)
(* fields of the NodeManager.  last is the command handle_command has just *)
(* handled with the result it returns, until the caller has taken the      *)
(* result; one caller issues the commands, one after the other.            *)
(* scheduled records, for every node a Start or Reschedule has named, the  *)
(* state in which the last successful one found the node once dispatch had *)
(* refreshed it ("Rejected" while every such command failed).  stopping    *)
(* is the position of the thread inside DestinationNode::stop.             *)
(***************************************************************************)
NoCommand == [type |-> "none"]

Idle == [command |-> NoCommand, res |-> Ok]

Manager ==
  [nodes |-> nodes, links |-> links, media_bridges |-> media_bridges, released |-> released]

(* The control points held by the mixers, counted to bound the series. *)
PointsIn(series) == UNION {{<<k, i>> : i \in 1..Len(series[k])} : k \in DOMAIN series}

NodePoints(node) ==
  {<<"node", x>> : x \in PointsIn(node.control_points)}
  \cup UNION {{<<sid, x>> : x \in PointsIn(node.slot_control_points[sid])} :
                sid \in DOMAIN node.slot_control_points}

PointCount == Cardinality(UNION {{<<id, x>> : x \in NodePoints(nodes[id])} : id \in DOMAIN nodes})

(***************************************************************************)
(* The stream bridge of one (producer, medium) pair before any sink is     *)
(* attached: StreamBridge::default.  The application sinks are the         *)
(* producers a bridge can be attached to, the application sources the      *)
(* consumers it can feed; a sample callback is the streaming thread's      *)
(* position inside new_sample with what it last returned and why it        *)
(* dropped the sample, the manager thread's position is the one inside     *)
(* add_consumer.  holds names the bridge mutexes whose guard the thread    *)
(* still has between two steps.                                            *)
(***************************************************************************)
AppSinks == {"s1", "s2"}
AppSrcs == {"a1", "a2"}
Registrations == {[id |-> "c1", consumer |-> "a1"], [id |-> "c2", consumer |-> "a2"]}
CapsValues == {"capsA", "capsB"}

NoSample == [n |-> 0, caps |-> None, buffer |-> FALSE]

IdleCallback(result, dropped) ==
  [pc |-> "idle", sample |-> NoSample, snapshot |-> EmptyMap, cached |-> None,
   caps_to_set |-> None, todo |-> {}, current |-> None, stale |-> {},
   attempts |-> <<>>, result |-> result, dropped |-> dropped, holds |-> {}]

IdleManagerThread == [pc |-> "idle", consumer |-> None, caps |-> None, holds |-> {}]

BridgeInit ==
  /\ consumers = EmptyMap
  /\ attached_sink = None
  /\ last_caps = None
  /\ callbacks = {}
  /\ appsrcs = [a \in AppSrcs |-> [caps |-> None, buffers |-> <<>>]]
  /\ new_sample = IdleCallback(None, None)
  /\ manager_thread = IdleManagerThread
  /\ emitted = 0

(***************************************************************************)
(* GRAPH_NODE_MANAGER: the mutex is free and no thread is inside           *)
(* handle_command or the refresh loop's tick.                              *)
(***************************************************************************)
Callers == {"jni", "http"}
RefreshThread == "graph-runtime-refresh"
Threads == Callers \cup {RefreshThread}

Outside == [pc |-> "outside", command |-> NoCommand, found |-> None, res |-> Ok]

LockInit ==
  /\ manager_lock = None
  /\ threads = [t \in Threads |-> Outside]

(* No series is being evaluated. *)
NoEvaluation == [points |-> <<>>, at |-> 0, done |-> FALSE, value |-> None]

(* No request is at the command endpoint. *)
NoRequest == [pc |-> "none"]

(* The runtime threads are not followed: they are in SpecStarts and        *)
(* SpecLifecycle only.                                                     *)
NoRuntime == [pc |-> "none"]

(* No destination is being stopped. *)
NoStop == [pc |-> "none", node |-> None, eos |-> {}, clock |-> 0, deadline |-> 0]

ManagerInit(envs) ==
  /\ now = 0
  /\ gst \in envs
  /\ started = FALSE
  /\ nodes = EmptyMap
  /\ links = EmptyMap
  /\ media_bridges = EmptyMap
  /\ released = {}
  /\ last = Idle
  /\ scheduled = EmptyMap

InitOf(envs) ==
  /\ ManagerInit(envs)
  /\ BridgeInit
  /\ LockInit
  /\ evaluation = NoEvaluation
  /\ stopping = NoStop
  /\ http = NoRequest
  /\ runtime = NoRuntime

ScheduledAfter(command, res) ==
  IF command.type \in {"start", "reschedule"} /\ command.id \in DOMAIN nodes
  THEN MapInsert(scheduled, command.id,
         IF IsErr(res)
         THEN IF command.id \in DOMAIN scheduled THEN scheduled[command.id] ELSE "Rejected"
         ELSE NodeRecord_refresh_runtime(nodes[command.id], now, gst).state)
  ELSE IF command.type = "remove" /\ ~IsErr(res) THEN MapRemove(scheduled, command.id)
  ELSE scheduled

(* runtime::handle_command: one dispatch under the manager lock. *)
Store(m) ==
  /\ nodes' = m.nodes
  /\ links' = m.links
  /\ media_bridges' = m.media_bridges
  /\ released' = m.released

Handled_as(command, out) ==
  /\ started' = TRUE
  /\ Store(out.m)
  /\ last' = [command |-> command, res |-> out.res]
  /\ scheduled' = ScheduledAfter(command, out.res)
  /\ UNCHANGED <<now, gst, bridgeVars, lockVars, evaluation, stopping, http, runtime>>

Handle(command) == Handled_as(command, dispatch(Manager, command, now, gst))

Of(commands, type) == {command \in commands : command.type = type}

CreateVideoGenerator(commands) ==
  /\ last = Idle
  /\ \E command \in Of(commands, "createvideogenerator") : Handle(command)

CreateSource(commands) ==
  /\ last = Idle
  /\ \E command \in Of(commands, "createsource") : Handle(command)

CreateDestination(commands) ==
  /\ last = Idle
  /\ \E command \in Of(commands, "createdestination") : Handle(command)

CreateMixer(commands) ==
  /\ last = Idle
  /\ \E command \in Of(commands, "createmixer") : Handle(command)

Connect(commands) ==
  /\ last = Idle
  /\ \E command \in Of(commands, "connect") : Handle(command)

Disconnect(commands) ==
  /\ last = Idle
  /\ \E command \in Of(commands, "disconnect") : Handle(command)

Start(commands) ==
  /\ last = Idle
  /\ \E command \in Of(commands, "start") : Handle(command)

Reschedule(commands) ==
  /\ last = Idle
  /\ \E command \in Of(commands, "reschedule") : Handle(command)

Remove(commands) ==
  /\ last = Idle
  /\ \E command \in Of(commands, "remove") : Handle(command)

GetInfo(commands) ==
  /\ last = Idle
  /\ \E command \in Of(commands, "getinfo") : Handle(command)

AddControlPoint(commands) ==
  /\ last = Idle
  /\ PointCount < MaxPoints
  /\ \E command \in Of(commands, "addcontrolpoint") : Handle(command)

RemoveControlPoint(commands) ==
  /\ last = Idle
  /\ \E command \in Of(commands, "removecontrolpoint") : Handle(command)

(* NodeManager::start, from start_graph_runtime. *)
StartRuntime ==
  /\ last = Idle
  /\ started' = TRUE
  /\ Store(tick(Manager, now, gst))
  /\ UNCHANGED <<now, gst, last, scheduled, bridgeVars, lockVars, evaluation, stopping, http, runtime>>

(* NodeManager::tick, from the refresh thread: nothing before start. *)
Tick ==
  /\ last = Idle
  /\ Store(IF started THEN tick(Manager, now, gst) ELSE Manager)
  /\ UNCHANGED <<now, gst, started, last, scheduled, bridgeVars, lockVars, evaluation, stopping, http, runtime>>

(* handle_command returns: the caller has the result. *)
Return ==
  /\ last # Idle
  /\ last' = Idle
  /\ UNCHANGED <<now, gst, started, nodes, links, media_bridges, released, scheduled>>
  /\ UNCHANGED <<bridgeVars, lockVars, evaluation, stopping, http, runtime>>

(* The wall clock moves between two handlers. *)
ClockAdvance ==
  /\ last = Idle
  /\ now + ClockStep <= MaxTime
  /\ now' = now + ClockStep
  /\ UNCHANGED <<gst, started, nodes, links, media_bridges, released, last, scheduled>>
  /\ UNCHANGED <<bridgeVars, lockVars, evaluation, stopping, http, runtime>>

NextOf(commands) ==
  \/ CreateVideoGenerator(commands)
  \/ CreateSource(commands)
  \/ CreateDestination(commands)
  \/ CreateMixer(commands)
  \/ Connect(commands)
  \/ Disconnect(commands)
  \/ Start(commands)
  \/ Reschedule(commands)
  \/ Remove(commands)
  \/ GetInfo(commands)
  \/ AddControlPoint(commands)
  \/ RemoveControlPoint(commands)
  \/ Return
  \/ StartRuntime
  \/ Tick

(* The graph specification: the initialised process, every command handled *)
(* within one second of the clock.  It is the specification of every       *)
(* property that names no other.                                           *)
Init == InitOf({GstInitialized})

Next == NextOf(GraphCommands)

Spec == Init /\ [][Next]_vars

(* The validation specification: the initialised process, every command   *)
(* handled within one second of the clock, the commands being those whose  *)
(* arguments validation accepts and those it refuses.                      *)
NextValidation == NextOf(ValidationCommands)

SpecValidation == Init /\ [][NextValidation]_vars

(* The schedule specification: either process, the clock advancing.        *)
InitSched == InitOf({GstInitialized, GstNotInitialized})

NextSched == NextOf(ScheduleCommands) \/ ClockAdvance

SpecSched == InitSched /\ [][NextSched]_vars

(***************************************************************************)
(* Properties.  A step handles a command when it takes last from Idle to   *)
(* the command and its result: the unprimed variables are the manager the  *)
(* command found, the primed ones the manager dispatch left.               *)
(***************************************************************************)
Handled == last = Idle /\ last' # Idle

CreateTypes == {"createvideogenerator", "createsource", "createdestination", "createmixer"}

(* C1: node ids are pairwise distinct and link ids are pairwise distinct:  *)
(* every node is stored under its own id, a Create* command naming the id  *)
(* of an existing node of any kind returns Error, a Connect naming the id  *)
(* of an existing link returns Error, and both leave the nodes and the     *)
(* links as they were.                                                     *)
C1_IdsStayUnique ==
  [][/\ \A id \in DOMAIN nodes' : nodes'[id].id = id
     /\ Handled =>
          LET command == last'.command
          IN /\ (command.type \in CreateTypes /\ command.id \in DOMAIN nodes)
                  => (/\ last'.res = Err("A node already exists with id")
                      /\ nodes' = nodes
                      /\ links' = links)
             /\ (command.type = "connect" /\ command.link_id \in DOMAIN links)
                  => (/\ IsErr(last'.res)
                      /\ nodes' = nodes
                      /\ links' = links)]_vars

(* A Create* naming a node of another kind was refused and the node stays. *)
C1_Witness ==
  /\ last.command.type = "createsource"
  /\ last.res = Err("A node already exists with id")
  /\ last.command.id \in DOMAIN nodes
  /\ nodes[last.command.id].kind = "VideoGenerator"
  /\ DOMAIN links # {}

(* The capability matrix: what a node emits and what it ingests. *)
Emits(node, media) ==
  CASE node.kind \in {"Source", "Mixer"} ->
         IF media = "audio" THEN node.audio_enabled ELSE node.video_enabled
    [] node.kind = "VideoGenerator" -> media = "video"
    [] OTHER -> FALSE

Ingests(node, media) ==
  CASE node.kind \in {"Destination", "Mixer"} ->
         IF media = "audio" THEN node.audio_enabled ELSE node.video_enabled
    [] OTHER -> FALSE

Fits(src, sink, audio, video) ==
  /\ audio => (Emits(src, "audio") /\ Ingests(sink, "audio"))
  /\ video => (Emits(src, "video") /\ Ingests(sink, "video"))

(* C2: a Connect that requests a medium the producer cannot emit or the    *)
(* consumer cannot ingest returns Error and leaves nodes and links as they *)
(* were, and every link of the graph joins two nodes that fit the          *)
(* capability matrix for each medium the link enables.                     *)
C2_CapabilityMatrix ==
  [][/\ \A l \in DOMAIN links' :
          /\ links'[l].src_id \in DOMAIN nodes'
          /\ links'[l].sink_id \in DOMAIN nodes'
          /\ Fits(nodes'[links'[l].src_id], nodes'[links'[l].sink_id],
                  links'[l].audio, links'[l].video)
     /\ Handled =>
          LET command == last'.command
          IN (/\ command.type = "connect"
              /\ command.src_id \in DOMAIN nodes
              /\ command.sink_id \in DOMAIN nodes
              /\ ~Fits(nodes[command.src_id], nodes[command.sink_id],
                       command.audio, command.video))
               => (/\ IsErr(last'.res)
                   /\ nodes' = nodes
                   /\ links' = links)]_vars

(* A Connect asking a video generator for audio was refused. *)
C2_Witness ==
  /\ last.command.type = "connect"
  /\ last.command.audio
  /\ last.res = Err("Link requested audio, but source/sink capabilities do not match")
  /\ last.command.src_id \in DOMAIN nodes
  /\ nodes[last.command.src_id].kind = "VideoGenerator"
  /\ last.command.sink_id \in DOMAIN nodes
  /\ last.command.link_id \notin DOMAIN links

(* Whether the bookkeeping of a node names a link id. *)
NamesLink(node, link_id) ==
  \/ link_id \in node.audio_consumer_slot_ids \cup node.video_consumer_slot_ids
  \/ link_id \in {node.audio_slot_id, node.video_slot_id}
  \/ link_id \in DOMAIN node.slots
  \/ link_id \in DOMAIN node.slot_settings
  \/ link_id \in DOMAIN node.slot_control_points

(* C3: after Remove(n) returns Success n is no node, no link has n as its  *)
(* producer or consumer, no remaining node names a link the cascade        *)
(* removed, and no bridge is keyed by n; Remove of an unknown id returns   *)
(* Error and changes nothing.                                              *)
C3_RemoveCascades ==
  [][(Handled /\ last'.command.type = "remove") =>
       LET id == last'.command.id
           cascade == {l \in DOMAIN links : links[l].src_id = id \/ links[l].sink_id = id}
       IN IF id \in DOMAIN nodes
          THEN /\ last'.res = Ok
               /\ id \notin DOMAIN nodes'
               /\ \A l \in DOMAIN links' : links'[l].src_id # id /\ links'[l].sink_id # id
               /\ \A l \in cascade : \A n \in DOMAIN nodes' : ~NamesLink(nodes'[n], l)
               /\ \A media \in {"audio", "video"} :
                    bridge_key(id, media) \notin DOMAIN media_bridges'
          ELSE /\ IsErr(last'.res)
               /\ nodes' = nodes
               /\ links' = links
               /\ media_bridges' = media_bridges]_vars

(* The medium a destination has enabled without a slot attached, audio    *)
(* before video, or None.                                                  *)
MissingSlot(node) ==
  IF node.audio_enabled /\ node.audio_slot_id = None THEN "audio"
  ELSE IF node.video_enabled /\ node.video_slot_id = None THEN "video"
  ELSE None

ScheduleTypes == {"start", "reschedule"}

(* C4: Start or Reschedule on a destination that has an enabled medium     *)
(* with no slot attached returns the Error that names the missing slot and *)
(* leaves the state, the cue time, the end time and the pipeline of the    *)
(* destination as they were.                                               *)
C4_MissingSlotRefused ==
  [][(/\ Handled
      /\ last'.command.type \in ScheduleTypes
      /\ last'.command.id \in DOMAIN nodes
      /\ nodes[last'.command.id].kind = "Destination"
      /\ MissingSlot(nodes[last'.command.id]) # None) =>
       LET id == last'.command.id
       IN /\ last'.res =
               Err(IF MissingSlot(nodes[id]) = "audio"
                   THEN "Destination must have its audio slot connected before starting"
                   ELSE "Destination must have its video slot connected before starting")
          /\ id \in DOMAIN nodes'
          /\ nodes'[id].state = nodes[id].state
          /\ nodes'[id].cue_time = nodes[id].cue_time
          /\ nodes'[id].end_time = nodes[id].end_time
          /\ nodes'[id].has_profile = nodes[id].has_profile
          /\ nodes'[id].stage = nodes[id].stage
          /\ nodes'[id].live_pipeline = nodes[id].live_pipeline]_vars

(* A Start with a cue was refused on a destination that runs a live        *)
(* pipeline from an earlier schedule and has lost its audio slot.          *)
C4_Witness ==
  /\ last.command.type = "start"
  /\ last.command.cue_time = CueAt
  /\ last.res = Err("Destination must have its audio slot connected before starting")
  /\ last.command.id \in DOMAIN nodes
  /\ nodes[last.command.id].live_pipeline.present
  /\ nodes[last.command.id].cue_time = NoTime

(* C5: a node no Start or Reschedule command has named is in state         *)
(* Initial after any number of dispatches and ticks, and getinfo reports   *)
(* it so.                                                                  *)
C5_UnscheduledStayInitial ==
  /\ \A id \in DOMAIN nodes : id \notin DOMAIN scheduled => nodes[id].state = "Initial"
  /\ (last.command.type = "getinfo" /\ last.res.type = "Info") =>
       \A id \in DOMAIN last.res.nodes :
         id \notin DOMAIN scheduled => last.res.nodes[id].state = "Initial"

(* The node was scheduled from Initial: the last successful schedule found *)
(* it in Initial or put it back there.                                     *)
ScheduledFromInitial(id) ==
  id \in DOMAIN scheduled /\ scheduled[id] \notin {"Started", "Rejected"}

(* The state the preroll rule gives a node with cue c at time t. *)
PrerollState(kind, c, t) ==
  IF kind = "Destination"
  THEN IF t < c THEN "Initial" ELSE "Started"
  ELSE IF t < c - PREROLL_LEAD_TIME_SECONDS THEN "Initial"
  ELSE IF t < c THEN "Starting"
  ELSE "Started"

(* C6: after every handler that runs at the time now, a source, mixer or   *)
(* video generator scheduled from Initial with cue c and no end is Initial *)
(* iff now < c - 10, Starting iff c - 10 <= now < c and Started iff        *)
(* now >= c; a destination scheduled from Initial with cue c and no end is *)
(* Initial iff now < c.                                                    *)
C6_PrerollLead ==
  [][now' = now =>
       \A id \in DOMAIN nodes' :
         (/\ ScheduledFromInitial(id)'
          /\ nodes'[id].cue_time # NoTime
          /\ nodes'[id].end_time = NoTime) =>
           IF nodes'[id].kind = "Destination"
           THEN (nodes'[id].state = "Initial") <=> (now < nodes'[id].cue_time)
           ELSE nodes'[id].state = PrerollState(nodes'[id].kind, nodes'[id].cue_time, now)]_vars

(* A producer scheduled from Initial is prerolling ten seconds before its  *)
(* cue while the destination scheduled for the same cue is still Initial.  *)
C6_Witness ==
  /\ now = CueAt - PREROLL_LEAD_TIME_SECONDS
  /\ \E id \in DOMAIN nodes :
       /\ nodes[id].kind # "Destination"
       /\ ScheduledFromInitial(id)
       /\ nodes[id].cue_time = CueAt /\ nodes[id].end_time = NoTime
       /\ nodes[id].state = "Starting"
  /\ \E id \in DOMAIN nodes :
       /\ nodes[id].kind = "Destination"
       /\ ScheduledFromInitial(id)
       /\ nodes[id].cue_time = CueAt /\ nodes[id].end_time = NoTime
       /\ nodes[id].state = "Initial"

Rank(state) ==
  CASE state = "Initial" -> 0
    [] state = "Starting" -> 1
    [] state = "Started" -> 2
    [] state = "Stopping" -> 3
    [] OTHER -> 4

(* C7: the clock never goes back, and across every step that is not a      *)
(* Start or Reschedule of the node, the state of a node stays or moves     *)
(* forward in the order Initial, Starting, Started, Stopping, Stopped.     *)
C7_StatesMoveForward ==
  [][/\ now' >= now
     /\ \A id \in (DOMAIN nodes) \cap (DOMAIN nodes') :
          \/ Handled /\ last'.command.type \in ScheduleTypes /\ last'.command.id = id
          \/ Rank(nodes'[id].state) >= Rank(nodes[id].state)]_vars

(* A node that was scheduled from Initial with a cue and an end has        *)
(* reached Stopped on a tick or on the dispatch of another command.        *)
C7_Witness ==
  \E id \in DOMAIN nodes :
    /\ ScheduledFromInitial(id)
    /\ nodes[id].cue_time = CueAt
    /\ nodes[id].end_time = EndAt
    /\ nodes[id].state = "Stopped"
    /\ (last = Idle \/ last.command.type \notin ScheduleTypes)

(* C8: scheduling a node that is Started with no cue, with a new cue more  *)
(* than 10 seconds ahead (any future cue for a destination whose slots are *)
(* connected), leaves the node in Initial with no live pipeline.           *)
C8_StartedRescheduledAhead ==
  [][(/\ Handled
      /\ last'.command.type \in ScheduleTypes
      /\ last'.command.id \in DOMAIN nodes
      /\ last'.command.id \in DOMAIN scheduled
      /\ nodes[last'.command.id].state = "Started"
      /\ nodes[last'.command.id].cue_time = NoTime
      /\ nodes[last'.command.id].end_time = NoTime
      /\ last'.command.cue_time # NoTime
      /\ IF nodes[last'.command.id].kind = "Destination"
         THEN /\ last'.command.cue_time > now
              /\ MissingSlot(nodes[last'.command.id]) = None
         ELSE last'.command.cue_time > now + PREROLL_LEAD_TIME_SECONDS) =>
       /\ last'.res = Ok
       /\ nodes'[last'.command.id].state = "Initial"
       /\ ~nodes'[last'.command.id].live_pipeline.present]_vars

(* C9 as stated: a successful Start or Reschedule stores the cue and end   *)
(* time and clears last_error, and a node that was Stopping or Stopped and *)
(* is scheduled with no cue is Started when the command returns.           *)
C9_StoppedRestarts ==
  [][(/\ Handled
      /\ last'.command.type \in ScheduleTypes
      /\ last'.res = Ok) =>
       LET id == last'.command.id
       IN /\ nodes'[id].cue_time = last'.command.cue_time
          /\ nodes'[id].end_time = last'.command.end_time
          /\ nodes'[id].last_error = None
          /\ (nodes[id].state \in {"Stopping", "Stopped"} /\ last'.command.cue_time = NoTime)
               => nodes'[id].state = "Started"]_vars

(* C9 amended: a successful Start or Reschedule stores the cue and end     *)
(* time and clears last_error; a node that was Stopping or Stopped is      *)
(* evaluated again from Initial at the current time: scheduled with no cue *)
(* and with no end time that has passed it is Started when the command     *)
(* returns, scheduled with no cue and an end time that has passed it is    *)
(* Stopped, and scheduled with a cue and no end it is in the state the     *)
(* preroll rule gives.                                                     *)
C9_StoppedReevaluated ==
  [][(/\ Handled
      /\ last'.command.type \in ScheduleTypes
      /\ last'.res = Ok) =>
       LET id == last'.command.id
           cue_time == last'.command.cue_time
           end_time == last'.command.end_time
       IN /\ nodes'[id].cue_time = cue_time
          /\ nodes'[id].end_time = end_time
          /\ nodes'[id].last_error = None
          /\ nodes[id].state \in {"Stopping", "Stopped"} =>
               /\ (cue_time = NoTime /\ (end_time = NoTime \/ now < end_time))
                    => nodes'[id].state = "Started"
               /\ (cue_time = NoTime /\ end_time # NoTime /\ now >= end_time)
                    => nodes'[id].state = "Stopped"
               /\ (cue_time # NoTime /\ end_time = NoTime)
                    => nodes'[id].state = PrerollState(nodes[id].kind, cue_time, now)]_vars

(* A Stopped node was scheduled again with no cue and no end and is        *)
(* Started, its last error cleared.                                        *)
C9_Witness ==
  /\ last.command.type \in ScheduleTypes
  /\ last.res = Ok
  /\ last.command.cue_time = NoTime
  /\ last.command.end_time = NoTime
  /\ scheduled[last.command.id] = "Stopped"
  /\ nodes[last.command.id].state = "Started"
  /\ nodes[last.command.id].last_error = None

(* The errors of validation: a duplicate id, a missing referenced id, a    *)
(* capability mismatch, an unsupported key, a value of the wrong type, a   *)
(* disallowed control-point target.                                        *)
ValidationErrors ==
  {Err(msg) : msg \in
     {"A node already exists with id", "A link already exists with id",
      "No producer with id", "No consumer with id", "No link with id", "No node with id",
      "No node or slot with id", "No sink node with id for link", "Mixer has no slot with id",
      "Link requested audio, but source/sink capabilities do not match",
      "Link requested video, but source/sink capabilities do not match",
      "Node is not a consumer",
      "No setting with name on mixers", "Mixer has no setting with name",
      "Slot property media type must be one of [audio, video]",
      "Slot property name must be in form media-type::property-name",
      "Cannot set key on link; video is not enabled for this link",
      "Cannot set key on link; audio is not enabled for this link",
      "Setting expects a numeric value", "Setting fallback-image expects a string value",
      "video property expects a numeric value", "audio::volume expects a numeric value",
      "Slot control points are only supported for mixer links",
      "Node control points are currently supported only for mixers"}}

Feeding(ls, id, media) ==
  {l \in DOMAIN ls : ls[l].sink_id = id /\ (IF media = "audio" THEN ls[l].audio ELSE ls[l].video)}

(* The Connect asks a destination for a medium whose slot is taken. *)
AsksOccupiedSlot(command) ==
  /\ command.type = "connect"
  /\ command.sink_id \in DOMAIN nodes
  /\ nodes[command.sink_id].kind = "Destination"
  /\ \/ command.audio /\ nodes[command.sink_id].audio_slot_id # None
     \/ command.video /\ nodes[command.sink_id].video_slot_id # None

(* C11: every destination is fed by at most one link carrying audio and at *)
(* most one link carrying video, and a Connect that requests a medium      *)
(* whose slot on the destination is occupied returns Error, inserts no     *)
(* link and leaves the audio and the video slot id of the destination as   *)
(* they were.                                                              *)
C11_OccupiedSlotRefused ==
  [][/\ \A id \in DOMAIN nodes' :
          nodes'[id].kind = "Destination" =>
            /\ Cardinality(Feeding(links', id, "audio")) <= 1
            /\ Cardinality(Feeding(links', id, "video")) <= 1
     /\ (Handled /\ AsksOccupiedSlot(last'.command)) =>
          LET id == last'.command.sink_id
          IN /\ IsErr(last'.res)
             /\ links' = links
             /\ id \in DOMAIN nodes'
             /\ nodes'[id].audio_slot_id = nodes[id].audio_slot_id
             /\ nodes'[id].video_slot_id = nodes[id].video_slot_id]_vars

(***************************************************************************)
(* The stream bridge at the grain of its mutexes.  The manager thread      *)
(* calls attach_sink, add_consumer and remove_consumer one after the       *)
(* other (sync_media_links, under the manager lock); the streaming thread  *)
(* of the attached sink runs the new_sample callback, which takes only the *)
(* bridge's own mutexes.  Each action is one critical section or one call  *)
(* on an application source: add_consumer inserts under the consumers      *)
(* mutex, then reads the cached caps under the caps mutex, then sets them  *)
(* on the consumer with the caps mutex still held; the callback snapshots  *)
(* the consumers, then compares and stores the caps, then for each         *)
(* consumer of the snapshot sets the caps and pushes a copy of the buffer, *)
(* then evicts the consumers whose push failed.  HashMap iteration order is any order.  A push fails when  *)
(* the consumer's pipeline refuses the buffer, which it may do at any      *)
(* time.  Every link id has its own application source, as every link has  *)
(* its own input slot.  The streaming thread delivers one sample at a     *)
(* time, numbered in the order the producer emitted them.  The bridge is   *)
(* followed until clear(), after which the manager drops it.               *)
(***************************************************************************)
MaxSamples == 2

BridgeManagerUnchanged == UNCHANGED <<managerVars, lockVars, evaluation, stopping, http, runtime>>

(* The producer side of the bridge: the attached sink, the cached caps and *)
(* the sinks whose callbacks feed the bridge.                              *)
ProducerSide ==
  [attached_sink |-> attached_sink, last_caps |-> last_caps, callbacks |-> callbacks]

attach_sink_KeepingCaps(b, s) ==
  IF b.attached_sink = s THEN b
  ELSE [attached_sink |-> s, last_caps |-> b.last_caps,
        callbacks |-> (b.callbacks \ {b.attached_sink}) \cup {s}]

(* StreamBridge::attach_sink: the same sink returns at once; another sink  *)
(* has the old one's callbacks emptied, the cache cleared and its own      *)
(* callbacks configured.                                                   *)
attach_sink(b, s) ==
  IF b.attached_sink = s THEN b
  ELSE [attached_sink |-> s, last_caps |-> None,
        callbacks |-> (b.callbacks \ {b.attached_sink}) \cup {s}]

StoreProducerSide(b) ==
  /\ attached_sink' = b.attached_sink
  /\ last_caps' = b.last_caps
  /\ callbacks' = b.callbacks

AttachSink ==
  /\ manager_thread.pc = "idle"
  /\ \E s \in AppSinks : StoreProducerSide(attach_sink(ProducerSide, s))
  /\ UNCHANGED <<consumers, appsrcs, new_sample, manager_thread, emitted>>
  /\ BridgeManagerUnchanged

(* StreamBridge::add_consumer: the insert under the consumers mutex. *)
AddConsumer ==
  /\ manager_thread.pc = "idle"
  /\ \E r \in Registrations :
       /\ consumers' = MapInsert(consumers, r.id, r.consumer)
       /\ manager_thread' = [pc |-> "inserted", consumer |-> r.consumer, caps |-> None,
                             holds |-> {}]
  /\ UNCHANGED <<attached_sink, last_caps, callbacks, appsrcs, new_sample, emitted>>
  /\ BridgeManagerUnchanged

(* StreamBridge::add_consumer: the cached caps cloned under the caps       *)
(* mutex.  The guard is a temporary of the scrutinee of the if let, which  *)
(* lives until the end of the if let: it is dropped at once when the cache *)
(* is empty and after the body otherwise.                                  *)
AddConsumerReadCaps ==
  /\ manager_thread.pc = "inserted"
  /\ manager_thread' = IF last_caps = None THEN IdleManagerThread
                       ELSE [manager_thread EXCEPT !.pc = "caps", !.caps = last_caps,
                                                   !.holds = {"last_caps"}]
  /\ UNCHANGED <<consumers, attached_sink, last_caps, callbacks, appsrcs, new_sample, emitted>>
  /\ BridgeManagerUnchanged

(* StreamBridge::add_consumer: consumer.set_caps with the cloned caps, the *)
(* body of the if let, and the guard dropped after it.                     *)
AddConsumerSetCaps ==
  /\ manager_thread.pc = "caps"
  /\ appsrcs' = [appsrcs EXCEPT ![manager_thread.consumer].caps = manager_thread.caps]
  /\ manager_thread' = IdleManagerThread
  /\ UNCHANGED <<consumers, attached_sink, last_caps, callbacks, new_sample, emitted>>
  /\ BridgeManagerUnchanged

(* StreamBridge::remove_consumer. *)
RemoveConsumer ==
  /\ manager_thread.pc = "idle"
  /\ \E id \in DOMAIN consumers : consumers' = MapRemove(consumers, id)
  /\ UNCHANGED <<attached_sink, last_caps, callbacks, appsrcs, new_sample, manager_thread, emitted>>
  /\ BridgeManagerUnchanged

(* The callback entered with one sample and its snapshot of the consumers. *)
Entered(sample) ==
  IF ~sample.buffer THEN IdleCallback("Ok", "no buffer")
  ELSE IF DOMAIN consumers = {} THEN IdleCallback("Ok", "no consumer")
  ELSE [IdleCallback(None, None) EXCEPT !.pc = "caps", !.sample = sample,
                                  !.snapshot = consumers, !.todo = DOMAIN consumers]

(* new_sample: pull_sample, the sample's caps and buffer, and the snapshot *)
(* of the consumers under their mutex.  A failed pull returns Eos, a       *)
(* sample without buffer and an empty snapshot return Ok.                  *)
NewSample(sample_caps) ==
  /\ new_sample.pc = "idle"
  /\ emitted < MaxSamples
  /\ \E s \in callbacks, pulled \in BOOLEAN, caps \in sample_caps, buffer \in BOOLEAN :
       IF ~pulled
       THEN new_sample' = IdleCallback("Eos", None) /\ UNCHANGED emitted
       ELSE /\ emitted' = emitted + 1
            /\ new_sample' = Entered([n |-> emitted + 1, caps |-> caps, buffer |-> buffer])
  /\ UNCHANGED <<consumers, attached_sink, last_caps, callbacks, appsrcs, manager_thread>>
  /\ BridgeManagerUnchanged

caps_to_set_Always(cached, incoming) == incoming

(* new_sample: the caps to set on the consumers, None when the sample has  *)
(* none or the cache holds them already.                                   *)
caps_to_set(cached, incoming) == IF cached = incoming THEN None ELSE incoming

(* new_sample: caps_to_set, compared with and stored in the cache under    *)
(* the caps mutex.                                                         *)
CompareCaps ==
  /\ new_sample.pc = "caps"
  /\ "last_caps" \notin manager_thread.holds
  /\ last_caps' = IF new_sample.sample.caps = None THEN last_caps
                  ELSE new_sample.sample.caps
  /\ new_sample' = [new_sample EXCEPT
                      !.pc = "push",
                      !.cached = last_caps,
                      !.caps_to_set = caps_to_set(last_caps, new_sample.sample.caps)]
  /\ UNCHANGED <<consumers, attached_sink, callbacks, appsrcs, manager_thread, emitted>>
  /\ BridgeManagerUnchanged

(* new_sample: appsrc.set_caps on the next consumer of the snapshot. *)
SetCaps ==
  /\ new_sample.pc = "push"
  /\ new_sample.current = None
  /\ new_sample.caps_to_set # None
  /\ \E id \in new_sample.todo :
       /\ appsrcs' = [appsrcs EXCEPT ![new_sample.snapshot[id]].caps = new_sample.caps_to_set]
       /\ new_sample' = [new_sample EXCEPT !.current = id]
  /\ UNCHANGED <<consumers, attached_sink, last_caps, callbacks, manager_thread, emitted>>
  /\ BridgeManagerUnchanged

(* The buffer as the application source receives it: the sample it is a    *)
(* copy of, and whether the caps the source was last given are the         *)
(* sample's.                                                               *)
Pushed(a) ==
  [n |-> new_sample.sample.n, caps_set |-> appsrcs[a].caps = new_sample.sample.caps]

(* new_sample: appsrc.push_buffer(buffer.copy()) on that consumer; a       *)
(* failed push makes the consumer stale.                                   *)
push_buffer_Twice(src, buffer) == [src EXCEPT !.buffers = Append(Append(@, buffer), buffer)]

push_buffer(src, buffer) == [src EXCEPT !.buffers = Append(@, buffer)]

PushBuffer ==
  /\ new_sample.pc = "push"
  /\ \E id \in new_sample.todo, ok \in BOOLEAN :
       /\ new_sample.current = IF new_sample.caps_to_set = None THEN None ELSE id
       /\ appsrcs' = IF ok
                     THEN [appsrcs EXCEPT ![new_sample.snapshot[id]] =
                             push_buffer(@, Pushed(new_sample.snapshot[id]))]
                     ELSE appsrcs
       /\ new_sample' = [new_sample EXCEPT
                           !.todo = @ \ {id},
                           !.current = None,
                           !.stale = IF ok THEN @ ELSE @ \cup {id},
                           !.attempts = Append(@, [id |-> id,
                                                   caps_set |-> new_sample.current = id,
                                                   ok |-> ok])]
  /\ UNCHANGED <<consumers, attached_sink, last_caps, callbacks, manager_thread, emitted>>
  /\ BridgeManagerUnchanged

evict_Nothing(registered, stale) == registered

(* new_sample: consumers.remove(id) for every stale id. *)
evict(registered, stale) == [id \in DOMAIN registered \ stale |-> registered[id]]

(* new_sample: the stale ids removed under the consumers mutex, and Ok     *)
(* returned to the producer.                                               *)
NewSampleReturn ==
  /\ new_sample.pc = "push"
  /\ new_sample.todo = {}
  /\ consumers' = evict(consumers, new_sample.stale)
  /\ new_sample' = IdleCallback("Ok", None)
  /\ UNCHANGED <<attached_sink, last_caps, callbacks, appsrcs, manager_thread, emitted>>
  /\ BridgeManagerUnchanged

NextBridgeOf(sample_caps) ==
  \/ AttachSink
  \/ AddConsumer
  \/ AddConsumerReadCaps
  \/ AddConsumerSetCaps
  \/ RemoveConsumer
  \/ NewSample(sample_caps)
  \/ CompareCaps
  \/ SetCaps
  \/ PushBuffer
  \/ NewSampleReturn

(* The bridge specification: one bridge, the manager thread and the        *)
(* streaming thread interleaved, a sample carrying caps or none.           *)
NextBridge == NextBridgeOf(CapsValues \cup {None})

SpecBridge == Init /\ [][NextBridge]_vars

(* The same with caps on every sample. *)
NextBridgeCaps == NextBridgeOf(CapsValues)

SpecBridgeCaps == Init /\ [][NextBridgeCaps]_vars

(***************************************************************************)
(* Properties of the bridge.  The steps of one callback are told by its    *)
(* position; the callback's record holds the sample, the snapshot, the     *)
(* cache it found and every push it attempted.                             *)
(***************************************************************************)
SampleEnters == emitted' = emitted + 1

CapsCompared == new_sample.pc = "caps" /\ new_sample'.pc = "push"

CallbackReturns == new_sample.pc = "push" /\ new_sample'.pc = "idle"

Attempts == {new_sample.attempts[i] : i \in 1..Len(new_sample.attempts)}

(* One attempt for every consumer of the snapshot, and every buffer that   *)
(* went through is a copy of the sample's.                                 *)
PushedOnceEach ==
  /\ Len(new_sample.attempts) = Cardinality(DOMAIN new_sample.snapshot)
  /\ {x.id : x \in Attempts} = DOMAIN new_sample.snapshot
  /\ \A x \in Attempts :
       x.ok => \E i \in 1..Len(appsrcs[new_sample.snapshot[x.id]].buffers) :
                 appsrcs[new_sample.snapshot[x.id]].buffers[i].n = new_sample.sample.n

(* A sample that finds no consumer is dropped and leaves the cache alone. *)
DroppedUnseen ==
  (SampleEnters /\ DOMAIN consumers = {}) =>
    /\ new_sample'.pc = "idle"
    /\ last_caps' = last_caps
    /\ appsrcs' = appsrcs

(* C12: a sample delivered with k >= 1 consumers registered is pushed once *)
(* to each of them as a copy of its buffer; the sample's caps are set on   *)
(* every one of them before its push exactly when they differ from the     *)
(* cached caps, and the cache then equals the sample's caps; with no       *)
(* consumer the sample is dropped and the cache unchanged.                 *)
C12_EverySamplePushedOnce ==
  [][/\ (SampleEnters /\ DOMAIN consumers # {}) => new_sample'.pc = "caps"
     /\ CapsCompared => last_caps' = new_sample.sample.caps
     /\ CallbackReturns =>
          /\ PushedOnceEach
          /\ \A x \in Attempts : x.caps_set <=> (new_sample.sample.caps # new_sample.cached)
     /\ DroppedUnseen]_vars

(* C12, amended: the same of a sample that carries a buffer, the caps set  *)
(* exactly when the sample carries caps that differ from the cached caps;  *)
(* a sample without caps leaves the cache as it was, a sample without      *)
(* buffer is dropped with no push.                                         *)
C12_BufferedSamplePushedOnce ==
  [][/\ (SampleEnters /\ DOMAIN consumers # {}) =>
          IF new_sample'.dropped = "no buffer"
          THEN new_sample'.pc = "idle" /\ last_caps' = last_caps /\ appsrcs' = appsrcs
          ELSE new_sample'.pc = "caps"
     /\ CapsCompared =>
          last_caps' = IF new_sample.sample.caps = None THEN last_caps
                       ELSE new_sample.sample.caps
     /\ CallbackReturns =>
          /\ PushedOnceEach
          /\ \A x \in Attempts :
               x.caps_set <=> (/\ new_sample.sample.caps # None
                               /\ new_sample.sample.caps # new_sample.cached)
     /\ DroppedUnseen]_vars

(* A sample whose caps differ from the cached ones has been pushed to two  *)
(* consumers, the caps set on each, and the callback is about to return.   *)
C12_Witness ==
  /\ new_sample.pc = "push"
  /\ new_sample.todo = {}
  /\ new_sample.cached \in CapsValues
  /\ last_caps = new_sample.sample.caps
  /\ last_caps # new_sample.cached
  /\ Len(new_sample.attempts) = 2
  /\ \A x \in Attempts : x.caps_set /\ x.ok

(* C13: a consumer whose push failed is no consumer of the bridge when the *)
(* callback returns, the callback removes no consumer whose push went      *)
(* through, it returns Ok to the producer, and a source is pushed a sample *)
(* only if it was registered when the callback of that sample took its     *)
(* snapshot.                                                               *)
C13_FailedConsumerEvicted ==
  [][/\ CallbackReturns =>
          /\ \A x \in Attempts : ~x.ok => x.id \notin DOMAIN consumers'
          /\ \A id \in DOMAIN consumers :
               id \notin {x.id : x \in Attempts \ {y \in Attempts : y.ok}} =>
                 id \in DOMAIN consumers' /\ consumers'[id] = consumers[id]
          /\ new_sample'.result = "Ok"
     /\ (SampleEnters /\ new_sample'.pc = "caps") => new_sample'.snapshot = consumers
     /\ \A a \in AppSrcs :
          appsrcs'[a].buffers # appsrcs[a].buffers =>
            \E id \in DOMAIN new_sample.snapshot : new_sample.snapshot[id] = a]_vars

(* One push of the sample failed and one went through, both consumers are  *)
(* still registered and the callback is about to return.                   *)
C13_Witness ==
  /\ new_sample.pc = "push"
  /\ new_sample.todo = {}
  /\ \E x, y \in Attempts : x.ok /\ ~y.ok /\ {x.id, y.id} \subseteq DOMAIN consumers

(* C14: every application source holds the buffers it was pushed in the    *)
(* order the producer emitted their samples, each sample at most once.     *)
C14_BuffersInProducerOrder ==
  \A a \in AppSrcs :
    \A i, j \in 1..Len(appsrcs[a].buffers) :
      i < j => appsrcs[a].buffers[i].n < appsrcs[a].buffers[j].n

(* Both sources hold the buffers of two samples. *)
C14_Witness ==
  \A a \in AppSrcs : Len(appsrcs[a].buffers) = 2

(* C15: attach_sink(s) leaves s the attached sink and the only sink whose  *)
(* callbacks feed the bridge; when another sink was attached its callbacks *)
(* are removed and the cached caps cleared, when s was attached nothing    *)
(* changes; and a sample enters the bridge only from the attached sink.    *)
C15_AttachSinkReplaces ==
  [][/\ \A s \in AppSinks :
          /\ attach_sink(ProducerSide, s).attached_sink = s
          /\ attach_sink(ProducerSide, s).callbacks = {s}
          /\ IF attached_sink = s
             THEN attach_sink(ProducerSide, s) = ProducerSide
             ELSE attach_sink(ProducerSide, s).last_caps = None
     /\ attached_sink' # attached_sink =>
          /\ callbacks' = {attached_sink'}
          /\ last_caps' = None
          /\ consumers' = consumers
     /\ SampleEnters => callbacks = {attached_sink}]_vars

(* The second sink replaced the first after a sample with caps had been    *)
(* cached and pushed, and the cache is empty.                              *)
C15_Witness ==
  /\ attached_sink = "s2"
  /\ callbacks = {"s2"}
  /\ last_caps = None
  /\ new_sample.pc = "idle"
  /\ \E a \in AppSrcs : appsrcs[a].caps \in CapsValues /\ appsrcs[a].buffers # <<>>

(* C16: every sample carrying caps, no application source is pushed a      *)
(* buffer unless the caps it was last given are the caps of that sample.   *)
C16_CapsBeforeBuffer ==
  \A a \in AppSrcs :
    \A i \in 1..Len(appsrcs[a].buffers) :
      appsrcs[a].buffers[i].caps_set

(***************************************************************************)
(* The manager mutex.  handle_command locks GRAPH_NODE_MANAGER for the     *)
(* whole of dispatch and the refresh thread locks it for the whole of      *)
(* tick; the guard is released when the call returns.  Here dispatch and   *)
(* tick are taken statement by statement, so that another thread could     *)
(* step in between if the mutex let it: a thread remembers the manager it  *)
(* found when it took the mutex.                                           *)
(***************************************************************************)
LockCommands ==
  {Command_CreateSource("n1", TRUE, TRUE),
   Command_CreateDestination("n2", TRUE, TRUE),
   Command_Connect("l1", "n1", "n2", TRUE, TRUE, EmptyMap),
   Command_Remove("n1"),
   Command_GetInfo(None)}

lock_Unguarded(t) == manager_lock' = t

(* Mutex::lock: taken when free. *)
lock(t) == manager_lock = None /\ manager_lock' = t

At(t, pc) == threads[t].pc = pc

Goto(t, pc) == threads' = [threads EXCEPT ![t].pc = pc]

LockUnchanged == UNCHANGED <<now, gst, last, scheduled, bridgeVars, evaluation, stopping, http, runtime>>

(* handle_command: GRAPH_NODE_MANAGER.lock() *)
HandleCommandLock ==
  /\ \E t \in Callers, command \in LockCommands :
       /\ At(t, "outside")
       /\ lock(t)
       /\ threads' = [threads EXCEPT ![t] = [pc |-> "dispatch", command |-> command,
                                             found |-> Manager, res |-> Ok]]
  /\ UNCHANGED <<started, nodes, links, media_bridges, released>>
  /\ LockUnchanged

(* dispatch: started = true; refresh_nodes() *)
DispatchRefresh ==
  /\ \E t \in Callers : At(t, "dispatch") /\ Goto(t, "execute")
  /\ started' = TRUE
  /\ Store(refresh_nodes(Manager, now, gst))
  /\ UNCHANGED manager_lock
  /\ LockUnchanged

Executed(t, out) ==
  /\ Store(out.m)
  /\ threads' = [threads EXCEPT ![t].pc = "sync", ![t].res = out.res]

(* dispatch: the match on the command *)
DispatchExecute ==
  /\ \E t \in Callers :
       /\ At(t, "execute")
       /\ Executed(t, execute(Manager, threads[t].command, now, gst))
  /\ UNCHANGED <<started, manager_lock>>
  /\ LockUnchanged

(* dispatch: sync_media_links() unless the command was getinfo *)
DispatchSync ==
  /\ \E t \in Callers :
       /\ At(t, "sync")
       /\ Goto(t, "refresh")
       /\ Store(IF threads[t].command.type # "getinfo"
                THEN sync_media_links(Manager, gst) ELSE Manager)
  /\ UNCHANGED <<started, manager_lock>>
  /\ LockUnchanged

(* dispatch: refresh_nodes(); the result returned and the guard dropped *)
DispatchReturn ==
  /\ \E t \in Callers : At(t, "refresh") /\ threads' = [threads EXCEPT ![t] = Outside]
  /\ Store(refresh_nodes(Manager, now, gst))
  /\ manager_lock' = None
  /\ UNCHANGED started
  /\ LockUnchanged

(* the refresh loop: GRAPH_NODE_MANAGER.lock() *)
TickLock ==
  /\ At(RefreshThread, "outside")
  /\ lock(RefreshThread)
  /\ threads' = [threads EXCEPT ![RefreshThread] = [Outside EXCEPT !.pc = "tick", !.found = Manager]]
  /\ UNCHANGED <<started, nodes, links, media_bridges, released>>
  /\ LockUnchanged

(* tick: return unless started; refresh_nodes() *)
TickRefresh ==
  /\ At(RefreshThread, "tick")
  /\ IF started
     THEN /\ Goto(RefreshThread, "sync")
          /\ Store(refresh_nodes(Manager, now, gst))
          /\ UNCHANGED manager_lock
     ELSE /\ threads' = [threads EXCEPT ![RefreshThread] = Outside]
          /\ manager_lock' = None
          /\ UNCHANGED <<nodes, links, media_bridges, released>>
  /\ UNCHANGED started
  /\ LockUnchanged

(* tick: sync_media_links(); the guard dropped *)
TickReturn ==
  /\ At(RefreshThread, "sync")
  /\ threads' = [threads EXCEPT ![RefreshThread] = Outside]
  /\ Store(sync_media_links(Manager, gst))
  /\ manager_lock' = None
  /\ UNCHANGED started
  /\ LockUnchanged

NextLock ==
  \/ HandleCommandLock
  \/ DispatchRefresh
  \/ DispatchExecute
  \/ DispatchSync
  \/ DispatchReturn
  \/ TickLock
  \/ TickRefresh
  \/ TickReturn

(* The lock specification: two callers of handle_command and the refresh   *)
(* thread, the clock standing still.                                       *)
SpecLock == Init /\ [][NextLock]_vars

(* C17: the threads inside dispatch or tick are at most one, the holder of *)
(* the manager mutex; a dispatch returns the result and leaves the manager *)
(* that dispatch gives, uninterrupted, from the manager the thread found   *)
(* when it took the mutex, and so does a tick.                             *)
C17_DispatchesSerialised ==
  [][/\ \A t \in Threads : threads'[t].pc # "outside" => manager_lock' = t
     /\ \A t \in Callers :
          (At(t, "refresh") /\ threads'[t].pc = "outside") =>
            /\ Manager' = dispatch(threads[t].found, threads[t].command, now, gst).m
            /\ threads[t].res = dispatch(threads[t].found, threads[t].command, now, gst).res
     /\ (At(RefreshThread, "sync") /\ threads'[RefreshThread].pc = "outside") =>
          Manager' = tick(threads[RefreshThread].found, now, gst)]_vars

(* A caller is between two statements of a CreateSource: the node is       *)
(* stored as it was constructed, the refresh that starts it has not run,   *)
(* and the manager is not yet the one the dispatch will leave.             *)
C17_Witness ==
  /\ manager_lock = "jni"
  /\ threads["jni"].pc = "sync"
  /\ threads["jni"].command.type = "createsource"
  /\ "n1" \in DOMAIN nodes
  /\ nodes["n1"].state = "Initial"
  /\ Manager # dispatch(threads["jni"].found, threads["jni"].command, now, gst).m

(***************************************************************************)
(* Control point targets.                                                  *)
(***************************************************************************)
(* Commands of the control specification: a producer, a destination and a  *)
(* mixer, a link into each consumer and one more link into the mixer whose *)
(* id is the mixer's, and control points of either value type for every    *)
(* kind of target and of property name.  The graph only grows: the other   *)
(* commands name an id that is no node and no link.                        *)
ControlCommands ==
  {Command_CreateSource("n1", TRUE, TRUE), Command_CreateDestination("n2", FALSE, TRUE),
   Command_CreateMixer("n3", EmptyMap, TRUE, TRUE),
   Command_Connect("l1", "n1", "n2", FALSE, TRUE, EmptyMap),
   Command_Connect("l2", "n1", "n3", FALSE, TRUE, EmptyMap),
   Command_Connect("n3", "n1", "n3", TRUE, FALSE, EmptyMap),
   Command_CreateVideoGenerator("n1"), Command_Disconnect("l3"), Command_Remove("l3"),
   Command_Start("l3", NoTime, NoTime), Command_Reschedule("l3", NoTime, NoTime),
   Command_GetInfo("n3")}
  \cup {Command_AddControlPoint(controllee_id, property, control_point) :
          controllee_id \in {"n1", "n3", "l1", "l2", "l3"},
          property \in {"width", "fallback-image", "bitrate", "video::x", "audio::volume",
                        "text::x"},
          control_point \in Points}
  \cup {Command_RemoveControlPoint("cp1", controllee_id, property) :
          controllee_id \in {"n3", "l2"},
          property \in {"width", "fallback-image", "video::x", "audio::volume"}}

NextControl == NextOf(ControlCommands)

SpecControl == Init /\ [][NextControl]_vars

(* The property is in the video:: or the audio:: namespace. *)
InSlotNamespace(property) ==
  Len(SplitKey(property)) = 2 /\ SplitKey(property)[1] \in {"video", "audio"}

NumericSlotKeys ==
  {"video::x", "video::y", "video::width", "video::height", "video::zorder", "video::alpha",
   "audio::volume"}

NumericSettingKeys == {"width", "height", "sample-rate", "fallback-timeout"}

(* The target and the value the claim lets a control point have. *)
ValidTarget(command) ==
  IF command.controllee_id \in DOMAIN links
  THEN /\ links[command.controllee_id].sink_id \in DOMAIN nodes
       /\ nodes[links[command.controllee_id].sink_id].kind = "Mixer"
       /\ command.controllee_id \in
            DOMAIN nodes[links[command.controllee_id].sink_id].slot_settings
       /\ InSlotNamespace(command.property)
       /\ command.property \in NumericSlotKeys => is_number(command.control_point.value)
  ELSE /\ command.controllee_id \in DOMAIN nodes
       /\ nodes[command.controllee_id].kind = "Mixer"
       /\ \/ command.property \in NumericSettingKeys /\ is_number(command.control_point.value)
          \/ command.property = "fallback-image" /\ is_string(command.control_point.value)

(* The control points of every node. *)
StoredPoints(ns) ==
  [id \in DOMAIN ns |-> [node |-> ns[id].control_points, slots |-> ns[id].slot_control_points]]

(* C18: an AddControlPoint returns Success only for a link into a mixer    *)
(* that has the slot, with a property of the video:: or audio:: namespace  *)
(* and a valid value, or for an id that is no link id and names a mixer,   *)
(* with a known setting key and a value of its type; any other returns     *)
(* Error and stores no control point; an id that is a link id and a node   *)
(* id is taken as the link, its point stored on the slot.                  *)
C18_ControlPointTargets ==
  [][(Handled /\ last'.command.type = "addcontrolpoint") =>
       /\ last'.res = Ok => ValidTarget(last'.command)
       /\ ~ValidTarget(last'.command) =>
            IsErr(last'.res) /\ StoredPoints(nodes') = StoredPoints(nodes)
       /\ (last'.res = Ok /\ last'.command.controllee_id \in DOMAIN links) =>
            LET sink_id == links[last'.command.controllee_id].sink_id
            IN /\ \A id \in DOMAIN nodes : nodes'[id].control_points = nodes[id].control_points
               /\ \E i \in DOMAIN nodes'[sink_id].slot_control_points
                                   [last'.command.controllee_id][last'.command.property] :
                    nodes'[sink_id].slot_control_points
                      [last'.command.controllee_id][last'.command.property][i]
                    = last'.command.control_point]_vars

(* A control point was added to the id that is the mixer and a link into   *)
(* it, and it is stored on the link's slot.                                *)
C18_Witness ==
  /\ last.command.type = "addcontrolpoint"
  /\ last.command.controllee_id = "n3"
  /\ last.res = Ok
  /\ "n3" \in DOMAIN links
  /\ "n3" \in DOMAIN nodes
  /\ "n3" \in DOMAIN nodes["n3"].slot_control_points
  /\ last.command.property \in DOMAIN nodes["n3"].slot_control_points["n3"]
  /\ nodes["n3"].slot_control_points["n3"][last.command.property] # <<>>

(***************************************************************************)
(* evaluate_control_points as a function of its arguments: any series of   *)
(* up to MaxSeries points in any order, with equal times and either mode   *)
(* and value type among them, evaluated before, at, between and after the  *)
(* times of its points.  The values and times are such that every          *)
(* interpolated value is a whole number.                                   *)
(***************************************************************************)
MaxSeries == 3

PointTimes == {2, 4, 6}

EvaluationTimes == 1..7

PointValues == {JNum(0), JNum(8), JStr("left")}

SeriesPoints ==
  {ControlPoint("cp1", time, value, mode) :
     time \in PointTimes, value \in PointValues, mode \in {"set", "interpolate"}}

SeriesOfLength(n) == [1..n -> SeriesPoints]

InitEvaluation ==
  /\ ManagerInit({GstInitialized})
  /\ BridgeInit
  /\ LockInit
  /\ stopping = NoStop
  /\ http = NoRequest
  /\ runtime = NoRuntime
  /\ \E n \in 0..MaxSeries : \E series \in SeriesOfLength(n) : \E at \in EvaluationTimes :
       evaluation = [points |-> series, at |-> at, done |-> FALSE, value |-> None]

(* One call of evaluate_control_points. *)
Evaluate ==
  /\ ~evaluation.done
  /\ evaluation' = [evaluation EXCEPT
                      !.done = TRUE,
                      !.value = evaluate_control_points(evaluation.points, evaluation.at)]
  /\ UNCHANGED <<managerVars, bridgeVars, lockVars, stopping, http, runtime>>

NextEvaluation == Evaluate

SpecEvaluation == InitEvaluation /\ [][NextEvaluation]_vars

(* The points of a series at or before a time, those after it, and among   *)
(* some points those with the greatest and with the least time.            *)
AtOrBefore(ps, at) == {i \in 1..Len(ps) : ps[i].time <= at}

After(ps, at) == {i \in 1..Len(ps) : ps[i].time > at}

Latest(ps, among) == {i \in among : \A j \in among : ps[j].time <= ps[i].time}

Earliest(ps, among) == {i \in among : \A j \in among : ps[i].time <= ps[j].time}

DistinctTimes(ps) == \A i, j \in 1..Len(ps) : i # j => ps[i].time # ps[j].time

AllSet(ps) == \A i \in 1..Len(ps) : ps[i].mode = "set"

Reordered(ps, f) == [i \in 1..Len(ps) |-> ps[f[i]]]

(* C19: evaluate_control_points returns no value for the empty series and  *)
(* the value of the point for a series of one; for a series of set points  *)
(* it returns the value of a point with the greatest time at or before the *)
(* evaluation time, or of a point with the least time when every point is  *)
(* later, and with distinct times it returns the same for every order of   *)
(* the points.                                                             *)
C19_SetSeriesValue ==
  evaluation.done =>
    LET ps == evaluation.points
        at == evaluation.at
    IN /\ Len(ps) = 0 => evaluation.value = NoValue
       /\ Len(ps) = 1 => evaluation.value = ps[1].value
       /\ (Len(ps) > 0 /\ AllSet(ps)) =>
            /\ evaluation.value \in
                 {ps[i].value : i \in IF AtOrBefore(ps, at) # {}
                                      THEN Latest(ps, AtOrBefore(ps, at))
                                      ELSE Earliest(ps, After(ps, at))}
            /\ DistinctTimes(ps) =>
                 \A f \in Permutations(1..Len(ps)) :
                   evaluate_control_points(Reordered(ps, f), at) = evaluation.value

(* Three set points given out of time order were evaluated between the     *)
(* second and the third time.                                              *)
C19_Witness ==
  /\ evaluation.done
  /\ Len(evaluation.points) = 3
  /\ AllSet(evaluation.points)
  /\ DistinctTimes(evaluation.points)
  /\ evaluation.points[1].time = 6
  /\ evaluation.points[2].time = 2
  /\ evaluation.points[3].time = 4
  /\ evaluation.at = 5
  /\ evaluation.points[3].value # evaluation.points[1].value
  /\ evaluation.points[3].value # evaluation.points[2].value
  /\ evaluation.value = evaluation.points[3].value

(* The point the scan keeps among points of one time: the last of the      *)
(* latest at or before the evaluation time, the first of the earliest      *)
(* after it.                                                               *)
LastOf(among) == CHOOSE i \in among : \A j \in among : j <= i

FirstOf(among) == CHOOSE i \in among : \A j \in among : i <= j

Between(n, lo, hi) == (lo <= n /\ n <= hi) \/ (hi <= n /\ n <= lo)

InterpolatedBetween(result, p, q, at) ==
  /\ is_number(result)
  /\ (result.n - p.value.n) * (q.time - p.time)
       = (q.value.n - p.value.n) * Clamp(at - p.time, 0, q.time - p.time)
  /\ Between(result.n, p.value.n, q.value.n)
  /\ 2 * (at - p.time) = q.time - p.time => 2 * result.n = p.value.n + q.value.n

InterpolatedFrom(result, ps, at, p, later) ==
  IF later # {} /\ is_number(p.value) /\ is_number(ps[FirstOf(later)].value)
  THEN InterpolatedBetween(result, p, ps[FirstOf(later)], at)
  ELSE result = p.value

(* C20: when the latest point p at or before the evaluation time is an     *)
(* interpolate point, a later point exists, q the earliest of them, and    *)
(* both values are numeric, the value returned is                          *)
(* p.value + (q.value - p.value) * (at - p.time) / (q.time - p.time), the  *)
(* ratio within 0 and 1: it lies between the two values and is their mean  *)
(* at the midpoint; with a value that is no number or with no later point  *)
(* it is p.value.  When every point is later the earliest point is both p  *)
(* and q, the two times are equal, and the value is p.value.               *)
C20_InterpolatedValue ==
  (evaluation.done /\ Len(evaluation.points) > 0) =>
    IF AtOrBefore(evaluation.points, evaluation.at) # {}
    THEN LET p == evaluation.points[LastOf(Latest(evaluation.points,
                                      AtOrBefore(evaluation.points, evaluation.at)))]
         IN p.mode = "interpolate" =>
              InterpolatedFrom(evaluation.value, evaluation.points, evaluation.at, p,
                               Earliest(evaluation.points,
                                        After(evaluation.points, evaluation.at)))
    ELSE evaluation.value =
           evaluation.points[FirstOf(Earliest(evaluation.points,
                                     After(evaluation.points, evaluation.at)))].value

(* An interpolate point of value 0 at time 2 and a point of value 8 at     *)
(* time 6 were evaluated at the midpoint, and the value is 4.              *)
C20_Witness ==
  /\ evaluation.done
  /\ Len(evaluation.points) = 2
  /\ evaluation.points[1] = ControlPoint("cp1", 6, JNum(8), "set")
  /\ evaluation.points[2] = ControlPoint("cp1", 2, JNum(0), "interpolate")
  /\ evaluation.at = 4
  /\ evaluation.value = JNum(4)

(***************************************************************************)
(* Slot volume.  The volume specification: a producer, a mixer, a link     *)
(* into the mixer that carries audio and one that carries video only, with *)
(* and without a configured volume; up to MaxVolumePoints audio::volume    *)
(* points of either mode on the two slots, at the start of the clock and   *)
(* two steps later, while the clock advances.  The other commands name an  *)
(* id that is no node and no link.                                         *)
(***************************************************************************)
MaxVolumePoints == 2

VolumePoints ==
  {ControlPoint("cp1", 0, JNum(3), mode) : mode \in {"set", "interpolate"}}
  \cup {ControlPoint("cp1", 2 * ClockStep, JNum(5), mode) : mode \in {"set", "interpolate"}}
  \cup {ControlPoint("cp1", 0, JNum(5), "set")}

VolumeCommands ==
  {Command_CreateSource("n1", TRUE, TRUE), Command_CreateMixer("n3", EmptyMap, TRUE, TRUE),
   Command_Connect("l1", "n1", "n3", FALSE, TRUE, EmptyMap),
   Command_Connect("l2", "n1", "n3", TRUE, TRUE, EmptyMap),
   Command_Connect("l2", "n1", "n3", TRUE, FALSE, Config("audio::volume", JNum(2))),
   Command_Disconnect("l2"),
   Command_CreateVideoGenerator("n1"), Command_CreateDestination("n1", FALSE, TRUE),
   Command_Remove("l3"), Command_Start("l3", NoTime, NoTime),
   Command_Reschedule("l3", NoTime, NoTime), Command_GetInfo("n3")}
  \cup {Command_AddControlPoint(link_id, "audio::volume", control_point) :
          link_id \in {"l1", "l2"}, control_point \in VolumePoints}
  \cup {Command_RemoveControlPoint("cp1", "l2", "audio::volume")}

(* AddControlPoint while the mixers hold fewer than MaxVolumePoints points. *)
AddVolumePoint ==
  /\ last = Idle
  /\ PointCount < MaxVolumePoints
  /\ \E command \in Of(VolumeCommands, "addcontrolpoint") : Handle(command)

NextVolume ==
  \/ CreateVideoGenerator(VolumeCommands)
  \/ CreateSource(VolumeCommands)
  \/ CreateDestination(VolumeCommands)
  \/ CreateMixer(VolumeCommands)
  \/ Connect(VolumeCommands)
  \/ Disconnect(VolumeCommands)
  \/ Start(VolumeCommands)
  \/ Reschedule(VolumeCommands)
  \/ Remove(VolumeCommands)
  \/ GetInfo(VolumeCommands)
  \/ AddVolumePoint
  \/ RemoveControlPoint(VolumeCommands)
  \/ Return
  \/ StartRuntime
  \/ Tick
  \/ ClockAdvance

SpecVolume == Init /\ [][NextVolume]_vars

(* Every slot whose settings hold audio::volume mirrors it. *)
VolumeMirrored(slots, slot_settings) ==
  \A slot_id \in DOMAIN slots :
    (slot_id \in DOMAIN slot_settings /\ "audio::volume" \in DOMAIN slot_settings[slot_id]) =>
      /\ is_number(slot_settings[slot_id]["audio::volume"])
      /\ slots[slot_id].volume = slot_settings[slot_id]["audio::volume"].n

(* The command adds a set point to the audio::volume series of a mixer     *)
(* slot, its time not in the future and no other point of the series that  *)
(* is not in the future later than it.                                     *)
AddsLatestVolumePoint(command) ==
  /\ command.type = "addcontrolpoint"
  /\ command.property = "audio::volume"
  /\ command.control_point.mode = "set"
  /\ command.control_point.time <= now
  /\ command.controllee_id \in DOMAIN links
  /\ links[command.controllee_id].sink_id \in DOMAIN nodes
  /\ LET node == nodes[links[command.controllee_id].sink_id]
         series == SeriesOf(GetOr(node.slot_control_points, command.controllee_id, EmptyMap),
                            "audio::volume")
     IN /\ node.kind = "Mixer"
        /\ \A i \in 1..Len(series) :
             series[i].time <= now => series[i].time <= command.control_point.time

(* C21: for every mixer slot whose slot settings contain audio::volume the *)
(* volume of the slot, in the node and in what getinfo reports, equals the *)
(* setting; and once a set audio::volume point that is not in the future   *)
(* and is the latest such point has been added, the volume of the slot is  *)
(* the value of the point.                                                 *)
C21_VolumeMirrorsSetting ==
  [][/\ \A id \in DOMAIN nodes' : VolumeMirrored(nodes'[id].slots, nodes'[id].slot_settings)
     /\ (Handled /\ last'.res.type = "Info") =>
          \A id \in DOMAIN last'.res.nodes :
            VolumeMirrored(last'.res.nodes[id].slots, last'.res.nodes[id].slot_settings)
     /\ (Handled /\ AddsLatestVolumePoint(last'.command) /\ last'.res = Ok) =>
          nodes'[links[last'.command.controllee_id].sink_id]
            .slots[last'.command.controllee_id].volume = last'.command.control_point.value.n]_vars

(* A second volume point, later than the first and due, was added to a     *)
(* slot that was connected with a configured volume: the slot has the      *)
(* value of the new point, which is neither the configured volume nor the  *)
(* value of the first point.                                               *)
C21_Witness ==
  /\ last.command.type = "addcontrolpoint"
  /\ last.res = Ok
  /\ last.command.controllee_id = "l2"
  /\ last.command.control_point.time = 2 * ClockStep
  /\ now >= 2 * ClockStep
  /\ "n3" \in DOMAIN nodes
  /\ "l2" \in DOMAIN nodes["n3"].slot_control_points
  /\ "audio::volume" \in DOMAIN nodes["n3"].slot_control_points["l2"]
  /\ Len(nodes["n3"].slot_control_points["l2"]["audio::volume"]) = 2
  /\ nodes["n3"].slot_control_points["l2"]["audio::volume"][1].value = JNum(3)
  /\ links["l2"].config = Config("audio::volume", JNum(2))
  /\ nodes["n3"].slots["l2"].volume = 5

(***************************************************************************)
(* The start of a destination.                                             *)
(***************************************************************************)
(* The step is one refresh of the nodes at the time now: a tick, or the    *)
(* start of the runtime.                                                   *)
RefreshStep == last = Idle /\ last' = Idle /\ now' = now

LeavesInitial(id) ==
  /\ id \in DOMAIN nodes
  /\ id \in DOMAIN nodes'
  /\ nodes[id].kind = "Destination"
  /\ nodes[id].state = "Initial"
  /\ nodes'[id].state # "Initial"

(* C30 as claimed: a destination whose cue has passed or is absent is in   *)
(* state Starting at the end of the refresh in which it leaves Initial.    *)
C30_StartingUntilNextRefresh ==
  [][RefreshStep => \A id \in DOMAIN nodes : LeavesInitial(id) => nodes'[id].state = "Starting"]_vars

(* C30: no destination is in state Starting at the end of a refresh or of  *)
(* a dispatch; in the refresh in which it leaves Initial a destination     *)
(* goes through Starting and is Started at the end, or Stopped when its    *)
(* end time has passed as well.                                            *)
C30_StartedInSameRefresh ==
  [][/\ \A id \in DOMAIN nodes' :
          nodes'[id].kind = "Destination" => nodes'[id].state # "Starting"
     /\ RefreshStep =>
          \A id \in DOMAIN nodes :
            LeavesInitial(id) =>
              /\ nodes[id].cue_time = NoTime \/ now >= nodes[id].cue_time
              /\ IF nodes[id].end_time # NoTime /\ now >= nodes[id].end_time
                 THEN nodes'[id].state = "Stopped"
                 ELSE nodes'[id].state = "Started"]_vars

(* A destination that was scheduled for a cue ahead of the clock, and so   *)
(* was Initial, is Started now that the cue has passed, no command being   *)
(* handled.                                                                *)
C30_Witness ==
  /\ last = Idle
  /\ now >= CueAt
  /\ \E id \in DOMAIN nodes :
       /\ nodes[id].kind = "Destination"
       /\ ScheduledFromInitial(id)
       /\ nodes[id].cue_time = CueAt
       /\ nodes[id].end_time = NoTime
       /\ nodes[id].state = "Started"

(***************************************************************************)
(* The stored control-point series.                                        *)
(***************************************************************************)
(* Every series a node stores, node-level and slot-level. *)
StoredSeries(node) ==
  {node.control_points[property] : property \in DOMAIN node.control_points}
  \cup UNION {{node.slot_control_points[slot_id][property] :
                 property \in DOMAIN node.slot_control_points[slot_id]} :
                slot_id \in DOMAIN node.slot_control_points}

SortedByTime(series) ==
  \A i, j \in 1..Len(series) : i < j => series[i].time <= series[j].time

NoDuplicatePoint(series) ==
  \A i, j \in 1..Len(series) :
    i < j => ~(series[i].id = series[j].id /\ series[i].time = series[j].time)

(* C28: every stored control-point series is sorted by non-decreasing time *)
(* and holds no two points of the same id and the same time.               *)
C28_SeriesSortedNoDuplicates ==
  \A id \in DOMAIN nodes :
    \A series \in StoredSeries(nodes[id]) : SortedByTime(series) /\ NoDuplicatePoint(series)

(***************************************************************************)
(* Disconnect.                                                             *)
(***************************************************************************)
(* What a node records of the links at its output and at its input. *)
LinkBookkeeping(node) ==
  [audio_consumer_slot_ids |-> node.audio_consumer_slot_ids,
   video_consumer_slot_ids |-> node.video_consumer_slot_ids,
   audio_slot_id |-> node.audio_slot_id, video_slot_id |-> node.video_slot_id,
   slots |-> node.slots, slot_settings |-> node.slot_settings,
   slot_control_points |-> node.slot_control_points]

(* No node and no bridge records the link. *)
LinkGone(nds, bridges, link_id) ==
  /\ \A id \in DOMAIN nds :
       /\ link_id \notin nds[id].audio_consumer_slot_ids
       /\ link_id \notin nds[id].video_consumer_slot_ids
       /\ nds[id].audio_slot_id # link_id
       /\ nds[id].video_slot_id # link_id
       /\ link_id \notin DOMAIN nds[id].slots
       /\ link_id \notin DOMAIN nds[id].slot_settings
       /\ link_id \notin DOMAIN nds[id].slot_control_points
  /\ \A key \in DOMAIN bridges :
       link_id \notin bridges[key].consumers /\ bridges[key].consumers # {}

(* The manager is the one dispatch left. *)
ManagerLeft ==
  [nodes |-> nodes', links |-> links', media_bridges |-> media_bridges',
   released |-> released']

(* Disconnect of the link, dispatched next, leaves the links and the link  *)
(* bookkeeping of the two nodes as they are in this state, the control     *)
(* points applied at the time of the commands.                             *)
DisconnectRestores(left, link_id, src_id, sink_id) ==
  /\ left.links = links
  /\ \A id \in {src_id, sink_id} :
       /\ id \in DOMAIN left.nodes
       /\ LinkBookkeeping(left.nodes[id])
            = LinkBookkeeping(NodeRecord_refresh_runtime(nodes[id], now, gst))

(* C27: Disconnect of an existing link removes it from the links, from the *)
(* consumer-link sets of its producer, from its sink and from the bridges, *)
(* and no bridge is left without consumers; Disconnect of an unknown link  *)
(* returns Error and changes nothing but what the refresh of the nodes and *)
(* of the bridges at the time of the command changes; a successful Connect *)
(* followed at once by the Disconnect of the link restores the links and   *)
(* the link bookkeeping of both endpoints.                                 *)
C27_DisconnectUndoesConnect ==
  [][/\ (Handled /\ last'.command.type = "disconnect") =>
          IF last'.command.link_id \in DOMAIN links
          THEN /\ last'.res = Ok
               /\ links' = MapRemove(links, last'.command.link_id)
               /\ LinkGone(nodes', media_bridges', last'.command.link_id)
          ELSE /\ IsErr(last'.res)
               /\ nodes' = refresh_nodes(Manager, now, gst).nodes
               /\ links' = links
               /\ media_bridges' = tick(Manager, now, gst).media_bridges
     /\ (Handled /\ last'.command.type = "connect" /\ last'.res = Ok) =>
          DisconnectRestores(
            dispatch(ManagerLeft, Command_Disconnect(last'.command.link_id), now, gst).m,
            last'.command.link_id, last'.command.src_id, last'.command.sink_id)]_vars

(***************************************************************************)
(* The runtime specification: the graph commands on a moving clock, the    *)
(* bus messages the pipelines post between two handlers, and the shutdown  *)
(* of the runtime.                                                         *)
(***************************************************************************)
MaxBus == 1

StreamBridge_clear(bridge) == [bridge EXCEPT !.consumers = {}, !.attached_sink = None]

(* What the drop of bridges leaves behind: the key of every bridge that    *)
(* still has a consumer or a sink attached.                                *)
DroppedBridges(bridges) ==
  {<<"bridge", key[1], key[2]>> : key \in {k \in DOMAIN bridges : bridges[k] # NewBridge}}

DroppedPipelines(nds) == {<<"pipeline", r[1], r[2]>> : r \in ReleasedBy(nds, DOMAIN nds)}

(* NodeManager::shutdown dropping the nodes as they are. *)
shutdown_Unstopped(m) ==
  [nodes |-> EmptyMap, links |-> EmptyMap, media_bridges |-> EmptyMap,
   released |-> m.released \cup DroppedPipelines(m.nodes)
                  \cup DroppedBridges([key \in DOMAIN m.media_bridges |->
                                         StreamBridge_clear(m.media_bridges[key])])]

(* NodeManager::shutdown: every node stopped, the maps cleared, every      *)
(* bridge cleared before the bridge map is.                                *)
shutdown(m) ==
  [nodes |-> EmptyMap, links |-> EmptyMap, media_bridges |-> EmptyMap,
   released |-> m.released
                  \cup DroppedPipelines([id \in DOMAIN m.nodes |-> NodeRecord_stop(m.nodes[id])])
                  \cup DroppedBridges([key \in DOMAIN m.media_bridges |->
                                         StreamBridge_clear(m.media_bridges[key])])]

ShutDown == [command |-> [type |-> "shutdown"], res |-> Ok]

(* shutdown_graph_runtime: the refresh thread is joined, the manager shut  *)
(* down under its lock; `last` holds the call until its caller goes on.    *)
Shutdown ==
  /\ last = Idle
  /\ started' = FALSE
  /\ Store(shutdown(Manager))
  /\ scheduled' = EmptyMap
  /\ last' = ShutDown
  /\ UNCHANGED <<now, gst, bridgeVars, lockVars, evaluation, stopping, http, runtime>>

PendingMessages ==
  Cardinality({<<id, i>> \in (DOMAIN nodes) \X (1..MaxBus + 1) :
                 i \in DOMAIN nodes[id].live_pipeline.bus})

(* The streaming threads of a live pipeline post an Error or an Eos        *)
(* message on its bus.                                                     *)
BusMessage ==
  /\ last = Idle
  /\ PendingMessages < MaxBus
  /\ \E id \in DOMAIN nodes, message \in {"eos", "error"} :
       /\ nodes[id].live_pipeline.present
       /\ nodes' = [nodes EXCEPT ![id].live_pipeline.bus = Append(@, message)]
  /\ UNCHANGED <<now, gst, started, links, media_bridges, released, last, scheduled>>
  /\ UNCHANGED <<bridgeVars, lockVars, evaluation, stopping, http, runtime>>

RuntimeCommands ==
  {Command_CreateSource("n1", TRUE, TRUE), Command_CreateVideoGenerator("n1"),
   Command_CreateDestination("n2", FALSE, TRUE),
   Command_CreateMixer("n3", EmptyMap, TRUE, TRUE),
   Command_Connect("l1", "n1", "n2", FALSE, TRUE, EmptyMap),
   Command_Connect("l2", "n1", "n3", TRUE, TRUE, EmptyMap),
   Command_Disconnect("l2"),
   Command_Start("n2", NoTime, EndAt), Command_Start("n1", CueAt, NoTime),
   Command_Remove("n2"), Command_Remove("n3")}

NextRuntime ==
  \/ CreateVideoGenerator(RuntimeCommands)
  \/ CreateSource(RuntimeCommands)
  \/ CreateDestination(RuntimeCommands)
  \/ CreateMixer(RuntimeCommands)
  \/ Connect(RuntimeCommands)
  \/ Disconnect(RuntimeCommands)
  \/ Start(RuntimeCommands)
  \/ Remove(RuntimeCommands)
  \/ Return
  \/ StartRuntime
  \/ Tick
  \/ ClockAdvance
  \/ BusMessage
  \/ Shutdown

SpecRuntime == Init /\ [][NextRuntime]_vars

(* C22: no pipeline is dropped, by a node or with its node, unless it has  *)
(* been set to Null: neither a node nor the manager has released a         *)
(* pipeline in another state (a node holds its one pipeline, or none, in   *)
(* live_pipeline).                                                         *)
C22_PipelinesNulledBeforeRelease ==
  /\ \A r \in released : r[1] # "pipeline"
  /\ \A id \in DOMAIN nodes : nodes[id].released = {}

(* A mixer whose pipeline was rebuilt for its slots beside a node whose    *)
(* pipeline an Error message has torn down.                                *)
C22_Witness ==
  /\ \E id \in DOMAIN nodes : nodes[id].live_pipeline.slots # {}
  /\ \E id \in DOMAIN nodes :
       nodes[id].last_error = PipelineError /\ ~nodes[id].live_pipeline.present

(* C23: with the framework initialised, a node has a live pipeline exactly *)
(* when its state is Starting or Started.                                  *)
C23_LivePipelineIffRunning ==
  \A id \in DOMAIN nodes :
    nodes[id].live_pipeline.present <=> nodes[id].state \in {"Starting", "Started"}

(***************************************************************************)
(* Pipeline errors.  A step of the manager refreshes every node when it is *)
(* a dispatch, a tick of the started manager or the start of the runtime.  *)
(***************************************************************************)
Posted ==
  \E id \in (DOMAIN nodes) \cap (DOMAIN nodes') :
    Len(nodes'[id].live_pipeline.bus) > Len(nodes[id].live_pipeline.bus)

Dispatched == Handled /\ last' # ShutDown

TickStep == last = Idle /\ last' = Idle /\ now' = now /\ started' /\ ~Posted

(* The refresh of the node polls its bus and finds an Error message: the   *)
(* stop of a destination whose end time has passed takes one message off   *)
(* the bus before the poll.                                                *)
ErrorObserved(node, t) ==
  poll_fails(IF node.kind = "Destination" THEN DestinationNode_advance_schedule(node, t)
             ELSE node)

StoppedByError(node) ==
  /\ node.state = "Stopped"
  /\ ~node.live_pipeline.present
  /\ node.last_error = PipelineError

(* The manager with nothing pending on the bus of the node. *)
ManagerWithout(id) == [Manager EXCEPT !.nodes[id].live_pipeline.bus = << >>]

(* The nodes the step leaves when the bus of the node holds no message. *)
NodesWithout(id) ==
  IF Dispatched THEN dispatch(ManagerWithout(id), last'.command, now, gst).m.nodes
  ELSE tick(ManagerWithout(id), now, gst).nodes

(* The command of the step schedules or removes the node. *)
Renews(id) ==
  /\ Dispatched
  /\ last'.command.type \in {"start", "reschedule", "remove"}
  /\ last'.command.id = id

(* C24: a refresh that finds an Error message on the bus of a node leaves  *)
(* the node Stopped, without live pipeline and with last_error set (unless *)
(* the command dispatched schedules or removes that node), and leaves      *)
(* every other node as it would without the message; a later tick keeps    *)
(* the node so, a later Start of the node answers as for any node          *)
(* and clears the error.                                                   *)
C24_ErrorStopsOnlyItsNode ==
  [][/\ \A id \in DOMAIN nodes :
          (Dispatched \/ TickStep) /\ ErrorObserved(nodes[id], now)
          => /\ Renews(id) \/ (id \in DOMAIN nodes' /\ StoppedByError(nodes'[id]))
             /\ DOMAIN nodes' = DOMAIN NodesWithout(id)
             /\ \A other \in (DOMAIN nodes') \ {id} : nodes'[other] = NodesWithout(id)[other]
     /\ \A id \in DOMAIN nodes :
          StoppedByError(nodes[id])
          => /\ TickStep => id \in DOMAIN nodes' /\ StoppedByError(nodes'[id])
             /\ Dispatched /\ last'.command.type = "start" /\ last'.command.id = id
                => /\ IsErr(last'.res) <=> IsErr(DestinationNode_ensure_start_ready(nodes[id]))
                                           /\ nodes[id].kind = "Destination"
                   /\ ~IsErr(last'.res) => nodes'[id].last_error = None]_vars

(* A node an Error message has stopped beside a node with a live pipeline. *)
C24_Witness ==
  /\ last = Idle
  /\ \E id \in DOMAIN nodes : StoppedByError(nodes[id])
  /\ \E id \in DOMAIN nodes : nodes[id].live_pipeline.present

(* C26: shutdown leaves the manager not started with no node, no link and  *)
(* no bridge, and drops no pipeline that is not Null and no bridge that is *)
(* not cleared; a manager that is not started holds nothing, and no step   *)
(* but a dispatch or the start of the runtime changes that.                *)
C26_ShutdownClearsManager ==
  [][/\ last = Idle /\ last' = ShutDown
        => /\ ~started'
           /\ nodes' = EmptyMap /\ links' = EmptyMap /\ media_bridges' = EmptyMap
           /\ released' = released
     /\ ~started /\ ~started'
        => /\ nodes = EmptyMap /\ links = EmptyMap /\ media_bridges = EmptyMap
           /\ UNCHANGED <<nodes, links, media_bridges>>]_vars

(* The runtime has just been shut down. *)
C26_Witness ==
  /\ last = ShutDown
  /\ ~started
  /\ nodes = EmptyMap

(***************************************************************************)
(* DestinationNode::stop, statement by statement, on one destination that  *)
(* is Started: advance_schedule calls it when the end time has passed      *)
(* (having set the state to Stopping), remove_node and shutdown call it    *)
(* through NodeRecord::stop.  The clock counts the timeouts of             *)
(* timed_pop_filtered (100 ms); the deadline of the wait is WaitPops of    *)
(* them away (5 s in the source).  The pipeline posts messages while it    *)
(* lives.                                                                  *)
(***************************************************************************)
WaitPops == 3

(* A destination started by schedule() with its slots connected; without   *)
(* the framework it holds no live pipeline.                                *)
StartedDestination(audio, video, g) ==
  DestinationNode_schedule(
    [DestinationNode_new("n2", audio, video) EXCEPT
       !.audio_slot_id = IF audio THEN "l1" ELSE None,
       !.video_slot_id = IF video THEN "l2" ELSE None],
    NoTime, NoTime, 0, g).node

Posting(node, messages) ==
  IF node.live_pipeline.present THEN [node EXCEPT !.live_pipeline.bus = messages] ELSE node

InitStop ==
  /\ ManagerInit({GstInitialized})
  /\ BridgeInit
  /\ LockInit
  /\ evaluation = NoEvaluation
  /\ http = NoRequest
  /\ runtime = NoRuntime
  /\ \E av \in {<<TRUE, TRUE>>, <<TRUE, FALSE>>, <<FALSE, TRUE>>},
        g \in {GstInitialized, GstNotInitialized},
        messages \in {<< >>, <<"eos">>, <<"error">>} :
       stopping = [pc |-> "started",
                   node |-> Posting(StartedDestination(av[1], av[2], g), messages),
                   eos |-> {}, clock |-> 0, deadline |-> 0]

StopUnchanged == UNCHANGED <<managerVars, bridgeVars, lockVars, evaluation, http, runtime>>

StopAt(pc) == stopping.pc = pc

(* The application sources of the live pipeline: one per enabled medium. *)
LiveAppSrcs(node) ==
  IF node.live_pipeline.present
  THEN {media \in {"audio", "video"} :
          (media = "audio" /\ node.audio_enabled) \/ (media = "video" /\ node.video_enabled)}
  ELSE {}

(* advance_schedule: the end time has passed; self.state = Stopping; self.stop() *)
StopForEnd ==
  /\ StopAt("started")
  /\ stopping' = [stopping EXCEPT !.pc = "wait_for_eos", !.node.state = "Stopping"]
  /\ StopUnchanged

(* remove_node, shutdown: node.stop() *)
StopForRemoval ==
  /\ StopAt("started")
  /\ stopping' = [stopping EXCEPT !.pc = "wait_for_eos"]
  /\ StopUnchanged

(* wait_for_eos_on_stop: return unless the profile waits and a pipeline is *)
(* live; self.state = Stopping                                             *)
StopEnterStopping ==
  /\ StopAt("wait_for_eos")
  /\ stopping' =
       IF stopping.node.has_profile /\ stopping.node.live_pipeline.present
       THEN [stopping EXCEPT !.pc = "eos_video", !.node.state = "Stopping"]
       ELSE [stopping EXCEPT !.pc = "teardown"]
  /\ StopUnchanged

(* video_appsrc.end_of_stream() *)
StopEosVideo ==
  /\ StopAt("eos_video")
  /\ stopping' = [stopping EXCEPT !.pc = "eos_audio",
                                  !.eos = @ \cup (LiveAppSrcs(stopping.node) \cap {"video"})]
  /\ StopUnchanged

(* audio_appsrc.end_of_stream() *)
StopEosAudio ==
  /\ StopAt("eos_audio")
  /\ stopping' = [stopping EXCEPT !.pc = "deadline",
                                  !.eos = @ \cup (LiveAppSrcs(stopping.node) \cap {"audio"})]
  /\ StopUnchanged

(* wait_deadline = Utc::now() + 5 s *)
StopSetDeadline ==
  /\ StopAt("deadline")
  /\ stopping' = [stopping EXCEPT !.pc = "while", !.deadline = stopping.clock + WaitPops]
  /\ StopUnchanged

(* The test of the wait loop without the deadline. *)
wait_goes_on_Always(clock, deadline) == TRUE

(* while Utc::now() < wait_deadline *)
wait_goes_on(clock, deadline) == clock < deadline

StopWhile ==
  /\ StopAt("while")
  /\ stopping' = [stopping EXCEPT
                    !.pc = IF wait_goes_on(stopping.clock, stopping.deadline)
                           THEN "pop" ELSE "teardown"]
  /\ StopUnchanged

(* timed_pop_filtered returns a message: Eos => break; Error => last_error *)
(* recorded, break                                                         *)
StopPopMessage ==
  /\ StopAt("pop")
  /\ stopping.node.live_pipeline.bus # << >>
  /\ stopping' = [stopping EXCEPT
                    !.pc = "teardown",
                    !.node.live_pipeline.bus = Tail(@),
                    !.node.last_error =
                       IF Head(stopping.node.live_pipeline.bus) = "error"
                       THEN PipelineError ELSE @]
  /\ StopUnchanged

(* timed_pop_filtered times out: continue.  The clock is counted up to    *)
(* the deadline.                                                           *)
StopPopTimeout ==
  /\ StopAt("pop")
  /\ stopping.node.live_pipeline.bus = << >>
  /\ stopping.clock < stopping.deadline
  /\ stopping' = [stopping EXCEPT !.pc = "while", !.clock = @ + 1]
  /\ StopUnchanged

(* stop: self.teardown_live_pipeline() *)
StopTeardown ==
  /\ StopAt("teardown")
  /\ stopping' = [stopping EXCEPT !.pc = "set_stopped",
                                  !.node = teardown_live_pipeline(@)]
  /\ StopUnchanged

(* stop: self.state = Stopped; the stage of the profile Idle *)
StopSetStopped ==
  /\ StopAt("set_stopped")
  /\ stopping' = [stopping EXCEPT
                    !.pc = "done",
                    !.node.state = "Stopped",
                    !.node.stage = IF stopping.node.has_profile THEN "Idle" ELSE @]
  /\ StopUnchanged

(* The pipeline posts an Eos or an Error message while stop() runs. *)
StopBusMessage ==
  /\ stopping.pc \notin {"none", "started", "done"}
  /\ stopping.node.live_pipeline.present
  /\ Len(stopping.node.live_pipeline.bus) < MaxBus
  /\ \E message \in {"eos", "error"} :
       stopping' = [stopping EXCEPT !.node.live_pipeline.bus = Append(@, message)]
  /\ StopUnchanged

(* The statements of the thread that runs stop(). *)
StopThread ==
  \/ StopForEnd
  \/ StopForRemoval
  \/ StopEnterStopping
  \/ StopEosVideo
  \/ StopEosAudio
  \/ StopSetDeadline
  \/ StopWhile
  \/ StopPopMessage
  \/ StopPopTimeout
  \/ StopTeardown
  \/ StopSetStopped

NextStop == StopThread \/ StopBusMessage

SpecStop == InitStop /\ [][NextStop]_vars

(* The thread that runs stop() holds the manager lock and runs on: its     *)
(* next statement is eventually executed.                                  *)
SpecStopFair == SpecStop /\ WF_vars(StopThread)

StopWaiting == stopping.pc \in {"deadline", "while", "pop"}

(* The order of stop() on a destination with a live pipeline. *)
StopInOrder ==
  /\ StopWaiting
     => /\ stopping.node.state = "Stopping"
        /\ stopping.node.live_pipeline.present
        /\ stopping.node.live_pipeline.state # "Null"
        /\ stopping.eos = LiveAppSrcs(stopping.node)
  /\ stopping.node.state = "Stopped"
     => stopping.pc = "done" /\ ~stopping.node.live_pipeline.present
  /\ stopping.node.released = {}

(* C29: a Started destination with a live pipeline that is stopped enters  *)
(* Stopping; while it waits on the bus it is Stopping, every application   *)
(* source of its pipeline has been sent end-of-stream and the pipeline is  *)
(* live; the pipeline goes, set to Null, only in the step after the wait,  *)
(* Stopped is set after that; and the wait always comes to its end.        *)
C29_StopWaitsForEos ==
  /\ []StopInOrder
  /\ [][/\ stopping.node.live_pipeline.present /\ ~stopping'.node.live_pipeline.present
           => stopping.pc = "teardown" /\ stopping.node.state = "Stopping"
        /\ stopping.node.live_pipeline.present /\ stopping.node.state = "Started"
           => stopping'.node.state \in {"Started", "Stopping"}]_vars
  /\ (StopWaiting ~> stopping.pc = "done")

(* The wait has run to its deadline on a destination of two media, which   *)
(* is Stopped.                                                             *)
C29_Witness ==
  /\ stopping.pc = "done"
  /\ stopping.eos = {"audio", "video"}
  /\ stopping.clock = stopping.deadline
  /\ stopping.deadline > 0
  /\ stopping.node.state = "Stopped"

(***************************************************************************)
(* The ticker specification: the runtime is started, a client has built    *)
(* one graph and scheduled one of its nodes, and sends no further command; *)
(* the refresh thread ticks, the clock runs, the pipelines post messages.  *)
(* The node was scheduled either as created (Started since its create     *)
(* command) or after a schedule that had ended at once (Stopped).          *)
(***************************************************************************)
ClockTimes == {t \in 0..MaxTime : t % ClockStep = 0}

RECURSIVE Dispatched_all(_, _)
Dispatched_all(m, commands) ==
  IF commands = << >> THEN m
  ELSE Dispatched_all(dispatch(m, Head(commands), 0, GstInitialized).m, Tail(commands))

(* The commands that build the graph around the node to schedule. *)
TickerGraphs ==
  [Source |-> <<Command_CreateSource("n1", TRUE, TRUE)>>,
   VideoGenerator |-> <<Command_CreateVideoGenerator("n1")>>,
   Mixer |-> <<Command_CreateMixer("n1", EmptyMap, TRUE, TRUE)>>,
   Destination |-> <<Command_CreateSource("n2", TRUE, TRUE),
                     Command_CreateDestination("n1", FALSE, TRUE),
                     Command_Connect("l1", "n2", "n1", FALSE, TRUE, EmptyMap)>>]

EmptyManager ==
  [nodes |-> EmptyMap, links |-> EmptyMap, media_bridges |-> EmptyMap, released |-> {}]

(* The manager as the commands have left it. *)
Holds(m) ==
  /\ nodes = m.nodes
  /\ links = m.links
  /\ media_bridges = m.media_bridges
  /\ released = m.released

InitTicker ==
  /\ now = 0
  /\ gst = GstInitialized
  /\ started = TRUE
  /\ last = Idle
  /\ BridgeInit
  /\ LockInit
  /\ evaluation = NoEvaluation
  /\ stopping = NoStop
  /\ http = NoRequest
  /\ runtime = NoRuntime
  /\ \E kind \in DOMAIN TickerGraphs, found \in {"Started", "Stopped"},
        cue_time \in ClockTimes \cup {NoTime}, end_time \in ClockTimes \cup {NoTime} :
       /\ scheduled = [id \in {"n1"} |-> found]
       /\ Holds(Dispatched_all(EmptyManager,
                  TickerGraphs[kind]
                  \o (IF found = "Stopped" THEN <<Command_Start("n1", NoTime, 0)>> ELSE << >>)
                  \o <<Command_Start("n1", cue_time, end_time)>>))

NextTicker ==
  \/ Tick
  \/ ClockAdvance
  \/ BusMessage

SpecTicker == InitTicker /\ [][NextTicker]_vars

(* ENABLED <<Tick>>_vars: a tick would change the manager. *)
TickDue == last = Idle /\ started /\ tick(Manager, now, gst) # Manager

(* The refresh thread ticks every 100 ms while the runtime runs, and time  *)
(* passes: WF_vars(ClockAdvance) and WF_vars(Tick), the latter with its    *)
(* enabling condition written as TickDue.                                  *)
SpecTickerFair ==
  SpecTicker /\ WF_vars(ClockAdvance) /\ ([]<>~TickDue \/ []<><<Tick>>_vars)

CuePassed(id) ==
  id \in DOMAIN nodes /\ nodes[id].cue_time # NoTime /\ now >= nodes[id].cue_time

EndPassed(id) ==
  id \in DOMAIN nodes /\ nodes[id].end_time # NoTime /\ now >= nodes[id].end_time

InState(id, state) == id \in DOMAIN nodes /\ nodes[id].state = state

(* C25: every scheduled node whose cue time passes eventually reaches      *)
(* Started, and every node whose end time passes eventually reaches        *)
(* Stopped.                                                                *)
C25_TickerDrivesSchedule ==
  \A id \in {"n1", "n2"} :
    /\ CuePassed(id) ~> InState(id, "Started")
    /\ EndPassed(id) ~> InState(id, "Stopped")

(* A message is pending on the bus of the node's pipeline. *)
MessagePending(id) ==
  id \in DOMAIN nodes /\ nodes[id].live_pipeline.present /\ nodes[id].live_pipeline.bus # << >>

(* C25, amended: every scheduled node whose cue time passes eventually     *)
(* reaches Started or Stopped, every node whose end time passes eventually *)
(* reaches Stopped, and a node becomes Stopped only when its end time has  *)
(* passed or its pipeline has posted an Error or Eos message.              *)
C25_TickerStartsOrStops ==
  /\ \A id \in {"n1", "n2"} :
       /\ CuePassed(id) ~> (InState(id, "Started") \/ InState(id, "Stopped"))
       /\ EndPassed(id) ~> InState(id, "Stopped")
  /\ [][\A id \in {"n1", "n2"} :
          ~InState(id, "Stopped") /\ InState(id, "Stopped")'
          => EndPassed(id) \/ MessagePending(id)]_vars

(* A node scheduled while Stopped, with a cue time ahead, that a tick has  *)
(* started after its cue time.                                             *)
C25_Witness ==
  /\ scheduled["n1"] = "Stopped"
  /\ nodes["n1"].cue_time > 0
  /\ CuePassed("n1")
  /\ InState("n1", "Started")

(***************************************************************************)
(* The link graph: an edge from the src_id to the sink_id of every link.   *)
(***************************************************************************)
(* to is reached from id over at most steps links. *)
RECURSIVE LinkPath(_, _, _)
LinkPath(id, to, steps) ==
  /\ steps > 0
  /\ \E link_id \in DOMAIN links :
       /\ links[link_id].src_id = id
       /\ \/ links[link_id].sink_id = to
          \/ LinkPath(links[link_id].sink_id, to, steps - 1)

(* C40: after any sequence of accepted commands the link graph is acyclic: *)
(* no link has src_id equal to sink_id and no chain of links leads from a  *)
(* node back to itself.                                                    *)
C40_LinkGraphAcyclic ==
  /\ \A link_id \in DOMAIN links : links[link_id].src_id # links[link_id].sink_id
  /\ \A id \in DOMAIN nodes : ~LinkPath(id, id, Cardinality(DOMAIN links))

(***************************************************************************)
(* advance_schedule as a function of the node and of the time.  The node   *)
(* n1 is one that schedule() has stored its times in: Initial, or Started  *)
(* when it was running; a destination has its profile from then on.  The   *)
(* dispatch of a Start calls advance_schedule twice with one reading of    *)
(* the clock, in refresh_nodes and in schedule(): `last` names the call    *)
(* until the caller goes on, with the state the first call found and the   *)
(* number of calls made since.                                             *)
(***************************************************************************)
AdvanceInputs ==
  {[node EXCEPT !.state = state,
                !.stage = IF state = "Initial" THEN "Idle" ELSE "Playing",
                !.cue_time = cue_time, !.end_time = end_time, !.has_profile = TRUE] :
     node \in {SourceNode_new("n1", TRUE, TRUE), VideoGeneratorNode_new("n1"),
               DestinationNode_new("n1", FALSE, TRUE),
               MixerNode_new("n1", EmptyMap, TRUE, TRUE).node},
     state \in {"Initial", "Started"},
     cue_time \in ClockTimes \cup {NoTime}, end_time \in ClockTimes \cup {NoTime}}

InitAdvance ==
  /\ now \in ClockTimes
  /\ gst = GstInitialized
  /\ started = TRUE
  /\ \E node \in AdvanceInputs : nodes = [id \in {"n1"} |-> node]
  /\ links = EmptyMap
  /\ media_bridges = EmptyMap
  /\ released = {}
  /\ last = Idle
  /\ scheduled = EmptyMap
  /\ BridgeInit
  /\ LockInit
  /\ evaluation = NoEvaluation
  /\ stopping = NoStop
  /\ http = NoRequest
  /\ runtime = NoRuntime

NodeRecord_advance_schedule(node, t) ==
  IF node.kind = "Destination" THEN DestinationNode_advance_schedule(node, t)
  ELSE SourceNode_advance_schedule(node, t)

NodeRecord_schedule_transition_due(node, t) ==
  IF node.kind = "Destination" THEN DestinationNode_schedule_transition_due(node, t)
  ELSE SourceNode_schedule_transition_due(node, t)

(* One call of advance_schedule(now) on n1. *)
AdvanceSchedule ==
  /\ nodes' = [nodes EXCEPT !["n1"] = NodeRecord_advance_schedule(@, now)]
  /\ last' = [command |-> [type |-> "advance_schedule",
                           found |-> IF last = Idle THEN nodes["n1"].state
                                     ELSE last.command.found,
                           calls |-> IF last = Idle THEN 1 ELSE 2],
              res |-> Ok]
  /\ UNCHANGED <<now, gst, started, links, media_bridges, released, scheduled>>
  /\ UNCHANGED <<bridgeVars, lockVars, evaluation, stopping, http, runtime>>

NextAdvance ==
  \/ AdvanceSchedule
  \/ Return
  \/ ClockAdvance

SpecAdvance == InitAdvance /\ [][NextAdvance]_vars

(* The time is set and has passed. *)
Passed(time) == time # NoTime /\ now >= time

(* C34: one call of advance_schedule at time now leaves the node where no  *)
(* transition is due at now (from Initial with its cue and end times both  *)
(* passed: in Stopped with stage Idle), and a second call with the same    *)
(* now changes neither the state nor the pipeline stage.                   *)
C34_AdvanceReachesFixpoint ==
  [][last'.command.type = "advance_schedule" =>
       /\ NodeRecord_schedule_transition_due(nodes'["n1"], now) \in {None, nodes'["n1"].state}
       /\ (/\ nodes["n1"].state = "Initial"
           /\ Passed(nodes["n1"].cue_time)
           /\ Passed(nodes["n1"].end_time))
          => nodes'["n1"].state = "Stopped" /\ nodes'["n1"].stage = "Idle"
       /\ last # Idle
          => /\ nodes'["n1"].state = nodes["n1"].state
             /\ nodes'["n1"].stage = nodes["n1"].stage]_vars

(* A source found Initial with both times passed, Stopped and Idle after   *)
(* the second call.                                                        *)
C34_Witness ==
  /\ last.command.type = "advance_schedule"
  /\ last.command.found = "Initial"
  /\ last.command.calls = 2
  /\ nodes["n1"].kind = "Source"
  /\ Passed(nodes["n1"].cue_time)
  /\ Passed(nodes["n1"].end_time)
  /\ nodes["n1"].state = "Stopped"
  /\ nodes["n1"].stage = "Idle"

(* C37: the slot settings of a mixer slot contain video:: keys only if its *)
(* link carries video and audio:: keys only if its link carries audio,     *)
(* whether a Connect config or a slot control point introduced the key.    *)
C37_SlotKeysFollowLinkMedia ==
  \A id \in DOMAIN nodes : \A slot_id \in DOMAIN nodes[id].slot_settings :
    (nodes[id].kind = "Mixer" /\ slot_id \in DOMAIN links /\ links[slot_id].sink_id = id)
    => /\ slot_has_media(nodes[id].slot_settings[slot_id], "video") => links[slot_id].video
       /\ slot_has_media(nodes[id].slot_settings[slot_id], "audio") => links[slot_id].audio

(***************************************************************************)
(* The command endpoint: one connection from parse_http_request to the     *)
(* response.  A request is its method, its path, whether the terminator of *)
(* the headers arrives before the end of the stream, the text of its       *)
(* Content-Length header (a decimal number as the sequence of its digits,  *)
(* empty without the header) and the body that follows: the command it     *)
(* spells (NoCommand for text that is no command) and its length in bytes. *)
(* Every request here has a request line with a method and a path, in      *)
(* UTF-8, and at most one Content-Length header.                           *)
(***************************************************************************)
GRAPH_COMMAND_MAX_REQUEST_SIZE == 1024 * 1024

(* The digits of usize::MAX on a 64-bit target. *)
USIZE_MAX == <<1, 8, 4, 4, 6, 7, 4, 4, 0, 7, 3, 7, 0, 9, 5, 5, 1, 6, 1, 5>>

RECURSIVE Digits(_)
Digits(n) == IF n < 10 THEN <<n>> ELSE Digits(n \div 10) \o <<n % 10>>

RECURSIVE Number(_)
Number(text) ==
  IF text = << >> THEN 0 ELSE 10 * Number(SubSeq(text, 1, Len(text) - 1)) + text[Len(text)]

(* a > b for two numbers written without leading zeros. *)
DigitsGreater(a, b) ==
  \/ Len(a) > Len(b)
  \/ /\ Len(a) = Len(b)
     /\ \E i \in 1..Len(a) : a[i] > b[i] /\ \A j \in 1..(i - 1) : a[j] = b[j]

(* value.trim().parse::<usize>().ok(): None for text that is no number and *)
(* for a number that does not fit.                                         *)
parse_usize(text) ==
  IF text = << >> \/ DigitsGreater(text, USIZE_MAX)
  THEN [some |-> FALSE, digits |-> << >>] ELSE [some |-> TRUE, digits |-> text]

(* The first Content-Length header that parses, 0 without one. *)
content_length(request) ==
  IF parse_usize(request.content_length).some
  THEN parse_usize(request.content_length).digits ELSE <<0>>

(* parse_http_request: the body is what the stream holds of it, cut at     *)
(* Content-Length bytes.                                                   *)
parse_http_request(request) ==
  IF ~request.terminated
  THEN Err("Malformed HTTP request: missing header terminator")
  ELSE IF DigitsGreater(content_length(request), Digits(GRAPH_COMMAND_MAX_REQUEST_SIZE))
  THEN Err("HTTP request body is too large")
  ELSE [type |-> "Success", msg |-> "", method |-> request.method, path |-> request.path,
        body |-> IF request.body.len > Number(content_length(request))
                 THEN [command |-> NoCommand, len |-> Number(content_length(request))]
                 ELSE request.body]

(* try_handle_command_json: the ServerMessage of a command's dispatch, or  *)
(* of the error of a payload that is no command.                           *)
try_handle_command_json(m, payload, t, g) ==
  IF payload.command = NoCommand
  THEN [m |-> m, res |-> Err("Invalid command payload")]
  ELSE dispatch(m, payload.command, t, g)

(* handle_command_http_request: status and JSON body of the response. *)
handle_command_http_request(m, method, path, body, t, g) ==
  CASE method = "POST" /\ path = "/command" ->
         [m |-> try_handle_command_json(m, body, t, g).m, status |-> 200,
          body |-> [result |-> try_handle_command_json(m, body, t, g).res.type]]
    [] method = "GET" /\ path = "/health" ->
         [m |-> m, status |-> 200, body |-> [status |-> "ok"]]
    [] method \in {"POST", "GET"} /\ <<method, path>> \notin {<<"POST", "/command">>,
                                                            <<"GET", "/health">>} ->
         [m |-> m, status |-> 404, body |-> [error |-> "not found"]]
    [] OTHER -> [m |-> m, status |-> 405, body |-> [error |-> "method not allowed"]]

(* handle_command_http_connection *)
handle_command_http_connection(m, request, t, g) ==
  IF IsErr(parse_http_request(request))
  THEN [m |-> m, status |-> 400, body |-> [error |-> parse_http_request(request).msg]]
  ELSE handle_command_http_request(m, parse_http_request(request).method,
                                   parse_http_request(request).path,
                                   parse_http_request(request).body, t, g)

(* The bodies a client sends: nothing, a command, text that is no command. *)
HttpBodies ==
  {[command |-> NoCommand, len |-> 0], [command |-> Command_GetInfo(None), len |-> 16],
   [command |-> Command_Remove("n1"), len |-> 16], [command |-> NoCommand, len |-> 16]}

(* Content-Length headers: none, 0, the length of the body, the limit, the *)
(* limit plus one, and 10^20, which no usize holds.                        *)
HttpLengths ==
  {<< >>, <<0>>, <<1, 6>>, Digits(GRAPH_COMMAND_MAX_REQUEST_SIZE),
   Digits(GRAPH_COMMAND_MAX_REQUEST_SIZE + 1), <<1>> \o [i \in 1..20 |-> 0]}

HttpRequests ==
  [method : {"POST", "GET", "PUT", "DELETE"}, path : {"/command", "/health", "/unknown"},
   terminated : BOOLEAN, content_length : HttpLengths, body : HttpBodies]

InitHttp ==
  /\ ManagerInit({GstInitialized})
  /\ BridgeInit
  /\ LockInit
  /\ evaluation = NoEvaluation
  /\ stopping = NoStop
  /\ runtime = NoRuntime
  /\ \E request \in HttpRequests : http = [pc |-> "accepted", request |-> request]

(* The request reaches dispatch, which marks the manager started. *)
Dispatches(request) ==
  /\ ~IsErr(parse_http_request(request))
  /\ request.method = "POST" /\ request.path = "/command"
  /\ parse_http_request(request).body.command # NoCommand

(* The endpoint thread reads the request, has it handled under the manager *)
(* lock and writes the response.                                           *)
HttpConnection ==
  /\ http.pc = "accepted"
  /\ LET out == handle_command_http_connection(Manager, http.request, now, gst)
     IN /\ Store(out.m)
        /\ started' = (started \/ Dispatches(http.request))
        /\ http' = [pc |-> "answered", request |-> http.request,
                    status |-> out.status, body |-> out.body]
  /\ UNCHANGED <<now, gst, last, scheduled, bridgeVars, lockVars, evaluation, stopping, runtime>>

(* The client closes the connection and the next one is accepted. *)
HttpAccept ==
  /\ http.pc = "answered"
  /\ \E request \in HttpRequests : http' = [pc |-> "accepted", request |-> request]
  /\ UNCHANGED <<managerVars, bridgeVars, lockVars, evaluation, stopping, runtime>>

NextHttp ==
  \/ HttpConnection
  \/ HttpAccept

SpecHttp == InitHttp /\ [][NextHttp]_vars

(* The request has no header terminator, or a Content-Length above 1 MiB. *)
MustBeRefused(request) ==
  \/ ~request.terminated
  \/ DigitsGreater(request.content_length, Digits(GRAPH_COMMAND_MAX_REQUEST_SIZE))

(* The body as the handler gets it spells a command. *)
ValidCommand(request) ==
  /\ request.body.command # NoCommand
  /\ ~DigitsGreater(Digits(request.body.len), request.content_length)

(* C31: the command endpoint answers a request without header terminator   *)
(* or with a Content-Length above 1 MiB with 400; otherwise POST /command   *)
(* with 200 and a body containing "result" (an error result when the body  *)
(* is no valid command), GET /health with 200 and {"status":"ok"}, any     *)
(* other path of a POST or GET with 404 and any other method with 405.     *)
C31_HttpContract ==
  http.pc = "answered" =>
    LET request == http.request
    IN IF MustBeRefused(request) THEN http.status = 400
       ELSE CASE request.method = "POST" /\ request.path = "/command" ->
                   /\ http.status = 200
                   /\ "result" \in DOMAIN http.body
                   /\ ~ValidCommand(request) => http.body.result = "Error"
              [] request.method = "GET" /\ request.path = "/health" ->
                   http.status = 200 /\ http.body = [status |-> "ok"]
              [] request.method \in {"POST", "GET"} -> http.status = 404
              [] OTHER -> http.status = 405

(***************************************************************************)
(* The bridge synchroniser.                                                *)
(***************************************************************************)
(* The links out of src_id that carry the medium and whose sink exposes a  *)
(* live input source for them.                                             *)
LiveConsumers(nds, lks, src_id, media) ==
  {link_id \in DOMAIN lks :
     /\ lks[link_id].src_id = src_id
     /\ LinkHas(lks[link_id], media)
     /\ lks[link_id].sink_id \in DOMAIN nds
     /\ NodeRecord_input_appsrc(nds[lks[link_id].sink_id], link_id, media)}

(* The bridge keys a manager can hold. *)
BridgeKeys(nds, lks, bridges) ==
  DOMAIN bridges
  \cup {bridge_key(id, media) : id \in DOMAIN nds, media \in {"audio", "video"}}
  \cup {bridge_key(lks[link_id].src_id, media) : link_id \in DOMAIN lks, media \in {"audio", "video"}}

BridgesFollowLinks(nds, lks, bridges) ==
  \A key \in BridgeKeys(nds, lks, bridges) :
    IF key \in DOMAIN bridges
    THEN /\ bridges[key].consumers = LiveConsumers(nds, lks, key[1], key[2])
         /\ bridges[key].consumers # {}
    ELSE LiveConsumers(nds, lks, key[1], key[2]) = {}

(* A dispatch takes time: it builds and stops pipelines, and the stop of a  *)
(* destination waits for end-of-stream.  dispatch reads the clock in its   *)
(* first refresh_nodes and in the handler of the command, and once more in *)
(* the refresh_nodes that follows sync_media_links; in SpecAcross the      *)
(* clock may move between the two.                                         *)
dispatch_across(m, command, t, later, g) ==
  dispatch_finish(command, execute(refresh_nodes(m, t, g), command, t, g), later, g)

DispatchAcross ==
  /\ last = Idle
  /\ now + ClockStep <= MaxTime
  /\ now' = now + ClockStep
  /\ \E command \in RuntimeCommands :
       LET out == dispatch_across(Manager, command, now, now + ClockStep, gst)
       IN /\ started' = TRUE
          /\ Store(out.m)
          /\ last' = [command |-> command, res |-> out.res]
          /\ scheduled' = ScheduledAfter(command, out.res)
  /\ UNCHANGED <<gst, bridgeVars, lockVars, evaluation, stopping, http, runtime>>

NextAcross ==
  \/ NextRuntime
  \/ DispatchAcross

SpecAcross == Init /\ [][NextAcross]_vars

(* C32: at the end of every tick and of every dispatch of a command other  *)
(* than getinfo, the consumers registered under a bridge key (src, medium) *)
(* are exactly the links out of src that carry the medium and whose sink   *)
(* exposes a live input source for the link, and no bridge is left without *)
(* consumers.                                                              *)
C32_BridgesFollowLinks ==
  [][(TickStep \/ (Dispatched /\ last'.command.type # "getinfo"))
       => BridgesFollowLinks(nodes', links', media_bridges')]_vars

(***************************************************************************)
(* The producer side of a bridge.  sync_media_links attaches the live      *)
(* output sink of the source node when there is one and leaves the bridge  *)
(* as it is when there is none; a bridge is dropped only when its last     *)
(* consumer is gone.                                                       *)
(***************************************************************************)
ProducerIsLive(nds, bridges) ==
  \A key \in DOMAIN bridges :
     bridges[key].attached_sink =
       IF key[1] \in DOMAIN nds THEN NodeRecord_output_appsink(nds[key[1]], key[2]) ELSE None

(* C36: at the end of every tick the sink attached to the bridge keyed     *)
(* (src, medium) is the live output sink of src for that medium, and no    *)
(* sink is attached when src has no live pipeline.                         *)
C36_AttachedSinkIsLive ==
  [][TickStep => ProducerIsLive(nodes', media_bridges')]_vars


(***************************************************************************)
(* The mutexes of the bridge.  A call into a consumer is set_caps or       *)
(* push_buffer on its application source: the last step of add_consumer on *)
(* the manager thread, and the steps of the push loop on the streaming     *)
(* thread.                                                                 *)
(***************************************************************************)
ManagerCallsConsumer == manager_thread.pc = "caps" /\ manager_thread'.pc = "idle"

CallbackCallsConsumer ==
  /\ new_sample.pc = "push"
  /\ new_sample'.pc = "push"
  /\ new_sample' # new_sample

(* C33: no bridge operation holds the consumers mutex or the caps mutex    *)
(* while it calls into a consumer, none holds both at once, and the        *)
(* callbacks never take the manager lock.                                  *)
C33_NoMutexAcrossConsumerCalls ==
  [][/\ ManagerCallsConsumer => manager_thread.holds = {}
     /\ CallbackCallsConsumer => new_sample.holds = {}
     /\ Cardinality(manager_thread.holds) <= 1
     /\ Cardinality(new_sample.holds) <= 1
     /\ new_sample' # new_sample => manager_lock' = manager_lock]_vars

(***************************************************************************)
(* A link id registered again with another application source: the link    *)
(* was disconnected and connected again to another input, or its sink's    *)
(* pipeline was rebuilt, while a callback was between its snapshot and its *)
(* eviction.                                                               *)
(***************************************************************************)
RebuiltRegistrations == {[id |-> "c1", consumer |-> "a2"], [id |-> "c2", consumer |-> "a1"]}

AddRebuiltConsumer ==
  /\ manager_thread.pc = "idle"
  /\ \E r \in RebuiltRegistrations :
       /\ consumers' = MapInsert(consumers, r.id, r.consumer)
       /\ manager_thread' = [pc |-> "inserted", consumer |-> r.consumer, caps |-> None,
                             holds |-> {}]
  /\ UNCHANGED <<attached_sink, last_caps, callbacks, appsrcs, new_sample, emitted>>
  /\ BridgeManagerUnchanged

NextRebuild == NextBridge \/ AddRebuiltConsumer

SpecRebuild == Init /\ [][NextRebuild]_vars

(* C35: the eviction at the end of the callback removes only the consumer  *)
(* whose push failed: a consumer registered under the same id since the    *)
(* snapshot is still registered when the callback returns.                 *)
C35_EvictionSparesNewConsumer ==
  [][CallbackReturns =>
       \A id \in new_sample.stale :
          (id \in DOMAIN consumers /\ consumers[id] # new_sample.snapshot[id])
             => (id \in DOMAIN consumers' /\ consumers'[id] = consumers[id])]_vars


(***************************************************************************)
(* The runtime threads.  GRAPH_REFRESH_THREAD and                          *)
(* GRAPH_COMMAND_SERVER_THREAD are mutexes around the join handle of the   *)
(* thread of a service, GRAPH_REFRESH_RUNNING and                          *)
(* GRAPH_COMMAND_SERVER_RUNNING the flags the threads poll.  runtime holds *)
(* for each service the flag, the slot (the number of the thread whose     *)
(* handle it holds, 0 for None), the caller that holds the slot mutex and  *)
(* the threads spawned so far, and for each caller of start_graph_runtime  *)
(* or shutdown_graph_runtime its position.  A step is one section under a  *)
(* mutex or one access of a flag; the sections under the manager lock      *)
(* (start, tick, shutdown) are one step each.  Spawning a thread succeeds. *)
(***************************************************************************)
RuntimeCallers == {"t1", "t2"}
MaxCalls == 3

IdleCaller == [pc |-> "idle", op |-> None, service |-> None, handle |-> 0, before |-> 0]

(* The graph the runtime is started on: a source that feeds a destination  *)
(* which is to stop at EndAt, or nothing.                                  *)
LifecycleGraph ==
  Dispatched_all(EmptyManager,
    <<Command_CreateSource("n1", TRUE, TRUE), Command_CreateDestination("n2", FALSE, TRUE),
      Command_Connect("l1", "n1", "n2", FALSE, TRUE, EmptyMap),
      Command_Start("n2", NoTime, EndAt)>>)

InitLifecycle ==
  /\ now = 0
  /\ gst = GstInitialized
  /\ \E graph \in {EmptyManager, LifecycleGraph} :
       /\ started = (graph # EmptyManager)
       /\ nodes = graph.nodes
       /\ links = graph.links
       /\ media_bridges = graph.media_bridges
       /\ released = graph.released
  /\ last = Idle
  /\ scheduled = EmptyMap
  /\ BridgeInit
  /\ LockInit
  /\ evaluation = NoEvaluation
  /\ stopping = NoStop
  /\ http = NoRequest
  /\ \E bind \in BOOLEAN :
       runtime = [running |-> [refresh |-> FALSE, server |-> FALSE],
                  slot |-> [refresh |-> 0, server |-> 0],
                  mutex |-> [refresh |-> None, server |-> None],
                  spawned |-> [refresh |-> << >>, server |-> << >>],
                  callers |-> [c \in RuntimeCallers |-> IdleCaller],
                  bind |-> bind, calls |-> 0, returned |-> FALSE]

RuntimeOnly ==
  UNCHANGED <<managerVars, bridgeVars, lockVars, evaluation, stopping, http>>

ManagerKept == UNCHANGED <<now, gst, last, bridgeVars, lockVars, evaluation, stopping, http>>

(* The thread as it is spawned: the endpoint thread has yet to bind. *)
Spawned(service) == IF service = "server" THEN "binding" ELSE "running"

ensure_thread_running_Unchecked(rt, service) ==
  [rt EXCEPT !.running[service] = TRUE,
             !.spawned[service] = Append(@, Spawned(service)),
             !.slot[service] = Len(rt.spawned[service]) + 1]

(* ensure_refresh_thread_running and ensure_command_server_running under   *)
(* the slot mutex: a slot that holds a handle has the flag stored true and *)
(* nothing else; an empty slot has the flag stored true, the thread        *)
(* spawned and its handle put in the slot.                                 *)
ensure_thread_running(rt, service) ==
  IF rt.slot[service] # 0 THEN [rt EXCEPT !.running[service] = TRUE]
  ELSE [rt EXCEPT !.running[service] = TRUE,
                  !.spawned[service] = Append(@, Spawned(service)),
                  !.slot[service] = Len(rt.spawned[service]) + 1]

(* start_graph_runtime: NodeManager::start under the manager lock. *)
CallStart(c) ==
  /\ runtime.callers[c].pc = "idle"
  /\ runtime.calls < MaxCalls
  /\ started' = TRUE
  /\ Store(tick(Manager, now, gst))
  /\ runtime' = [runtime EXCEPT !.callers[c] = [IdleCaller EXCEPT !.pc = "ensure",
                                                                  !.op = "start",
                                                                  !.service = "refresh"],
                                !.calls = @ + 1]
  /\ UNCHANGED scheduled
  /\ ManagerKept

(* start_graph_runtime: ensure_refresh_thread_running. *)
EnsureRefreshThreadRunning(c) ==
  /\ runtime.callers[c].pc = "ensure"
  /\ runtime.callers[c].service = "refresh"
  /\ runtime.mutex["refresh"] = None
  /\ runtime' = [ensure_thread_running(runtime, "refresh") EXCEPT
                   !.callers[c].service = "server"]
  /\ RuntimeOnly

(* start_graph_runtime: ensure_command_server_running, which returns at    *)
(* once when no bind address is configured, and the return of the call.    *)
EnsureCommandServerRunning(c) ==
  /\ runtime.callers[c].pc = "ensure"
  /\ runtime.callers[c].service = "server"
  /\ runtime.bind => runtime.mutex["server"] = None
  /\ runtime' = [(IF runtime.bind THEN ensure_thread_running(runtime, "server") ELSE runtime)
                   EXCEPT !.callers[c] = IdleCaller, !.returned = TRUE]
  /\ RuntimeOnly

(* shutdown_graph_runtime is called. *)
CallShutdown(c) ==
  /\ runtime.callers[c].pc = "idle"
  /\ runtime.calls < MaxCalls
  /\ runtime' = [runtime EXCEPT !.callers[c] = [IdleCaller EXCEPT
                                                  !.pc = "store",
                                                  !.op = "shutdown",
                                                  !.service = "server",
                                                  !.before = Len(runtime.spawned["refresh"])],
                                !.calls = @ + 1]
  /\ RuntimeOnly

(* The caller after stop_command_server_thread and after                   *)
(* stop_refresh_thread.                                                    *)
AfterStop(rt, c) ==
  IF rt.callers[c].service = "server"
  THEN [rt EXCEPT !.callers[c].pc = "store", !.callers[c].service = "refresh",
                  !.callers[c].handle = 0]
  ELSE [rt EXCEPT !.callers[c].pc = "manager", !.callers[c].handle = 0]

(* stop_*_thread: the flag stored false, outside the slot mutex. *)
StopStore(c) ==
  /\ runtime.callers[c].pc = "store"
  /\ runtime' = [runtime EXCEPT !.running[runtime.callers[c].service] = FALSE,
                                !.callers[c].pc = "lock"]
  /\ RuntimeOnly

(* stop_*_thread: the slot mutex locked and the handle taken; with an      *)
(* empty slot the function returns.                                        *)
StopTake(c) ==
  /\ runtime.callers[c].pc = "lock"
  /\ runtime.mutex[runtime.callers[c].service] = None
  /\ runtime' = IF runtime.slot[runtime.callers[c].service] = 0
                THEN AfterStop(runtime, c)
                ELSE [runtime EXCEPT !.slot[runtime.callers[c].service] = 0,
                                     !.mutex[runtime.callers[c].service] = c,
                                     !.callers[c].handle =
                                        runtime.slot[runtime.callers[c].service],
                                     !.callers[c].pc = "join"]
  /\ RuntimeOnly

(* stop_*_thread: handle.join() returns once the thread has exited, and    *)
(* the slot mutex is unlocked.                                             *)
StopJoin(c) ==
  /\ runtime.callers[c].pc = "join"
  /\ runtime.spawned[runtime.callers[c].service][runtime.callers[c].handle] = "exited"
  /\ runtime' = AfterStop([runtime EXCEPT !.mutex[runtime.callers[c].service] = None], c)
  /\ RuntimeOnly

(* shutdown_graph_runtime: NodeManager::shutdown under the manager lock,   *)
(* and the return of the call.                                             *)
ShutdownManager(c) ==
  /\ runtime.callers[c].pc = "manager"
  /\ started' = FALSE
  /\ Store(shutdown(Manager))
  /\ scheduled' = EmptyMap
  /\ runtime' = [runtime EXCEPT !.callers[c] = IdleCaller]
  /\ ManagerKept

(* The refresh thread: the flag is set, and the tick under the manager     *)
(* lock.                                                                   *)
RefreshThreadTick ==
  /\ \E i \in DOMAIN runtime.spawned["refresh"] : runtime.spawned["refresh"][i] = "running"
  /\ runtime.running["refresh"]
  /\ Store(IF started THEN tick(Manager, now, gst) ELSE Manager)
  /\ UNCHANGED <<started, scheduled, runtime>>
  /\ ManagerKept

(* The refresh thread finds the flag cleared and returns. *)
RefreshThreadExit ==
  /\ ~runtime.running["refresh"]
  /\ \E i \in DOMAIN runtime.spawned["refresh"] :
       /\ runtime.spawned["refresh"][i] = "running"
       /\ runtime' = [runtime EXCEPT !.spawned["refresh"][i] = "exited"]
  /\ RuntimeOnly

(* The endpoint thread binds its listener, or fails to and returns. *)
ServerThreadBind ==
  /\ \E i \in DOMAIN runtime.spawned["server"], bound \in BOOLEAN :
       /\ runtime.spawned["server"][i] = "binding"
       /\ runtime' = [runtime EXCEPT !.spawned["server"][i] =
                                        IF bound THEN "running" ELSE "exited"]
  /\ RuntimeOnly

(* The endpoint thread finds the flag cleared and returns. *)
ServerThreadExit ==
  /\ ~runtime.running["server"]
  /\ \E i \in DOMAIN runtime.spawned["server"] :
       /\ runtime.spawned["server"][i] = "running"
       /\ runtime' = [runtime EXCEPT !.spawned["server"][i] = "exited"]
  /\ RuntimeOnly

(* Calls of start_graph_runtime only. *)
NextStarts ==
  \/ \E c \in RuntimeCallers : CallStart(c)
  \/ \E c \in RuntimeCallers : EnsureRefreshThreadRunning(c)
  \/ \E c \in RuntimeCallers : EnsureCommandServerRunning(c)
  \/ RefreshThreadTick
  \/ ServerThreadBind
  \/ ClockAdvance

SpecStarts == InitLifecycle /\ [][NextStarts]_vars

(* Calls of start_graph_runtime and of shutdown_graph_runtime. *)
NextLifecycle ==
  \/ NextStarts
  \/ \E c \in RuntimeCallers : CallShutdown(c)
  \/ \E c \in RuntimeCallers : StopStore(c)
  \/ \E c \in RuntimeCallers : StopTake(c)
  \/ \E c \in RuntimeCallers : StopJoin(c)
  \/ \E c \in RuntimeCallers : ShutdownManager(c)
  \/ RefreshThreadExit
  \/ ServerThreadExit

(* A call that was made goes on, and a thread polls its flag again and     *)
(* again; nobody has to call.                                              *)
LifecycleFairness ==
  /\ \A c \in RuntimeCallers :
       /\ WF_vars(EnsureRefreshThreadRunning(c))
       /\ WF_vars(EnsureCommandServerRunning(c))
       /\ WF_vars(StopStore(c))
       /\ WF_vars(StopTake(c))
       /\ WF_vars(StopJoin(c))
       /\ WF_vars(ShutdownManager(c))
  /\ WF_vars(RefreshThreadExit)
  /\ WF_vars(ServerThreadBind)
  /\ WF_vars(ServerThreadExit)

SpecLifecycle == InitLifecycle /\ [][NextLifecycle]_vars /\ LifecycleFairness

Running(service) ==
  {i \in DOMAIN runtime.spawned[service] : runtime.spawned[service][i] # "exited"}

(* C38: start_graph_runtime called any number of times, no shutdown in     *)
(* between, leaves exactly one refresh thread and at most one endpoint     *)
(* thread, and alters neither the nodes nor the links of the manager.      *)
C38_StartLeavesNodesAlone ==
  [][/\ Cardinality(Running("refresh")') <= 1
     /\ Cardinality(Running("server")') <= 1
     /\ runtime'.returned => Cardinality(Running("refresh")') = 1
     /\ runtime'.calls > runtime.calls => (nodes' = nodes /\ links' = links)]_vars

(* C38 as it holds: exactly one refresh thread and at most one endpoint    *)
(* thread, no node and no link added or removed, the links as they were    *)
(* and the nodes as a tick at that moment leaves them.                     *)
C38_StartIsIdempotent ==
  [][/\ Cardinality(Running("refresh")') <= 1
     /\ Cardinality(Running("server")') <= 1
     /\ runtime'.returned => Cardinality(Running("refresh")') = 1
     /\ runtime'.calls > runtime.calls =>
          /\ links' = links
          /\ DOMAIN nodes' = DOMAIN nodes
          /\ nodes' = refresh_nodes(Manager, now, gst).nodes]_vars

(* Every call has returned, all but the first after the threads were      *)
(* there, on a manager that holds the graph, whose destination has been    *)
(* stopped meanwhile.                                                      *)
C38_Witness ==
  /\ runtime.calls = MaxCalls
  /\ \A c \in RuntimeCallers : runtime.callers[c].pc = "idle"
  /\ runtime.returned
  /\ runtime.bind
  /\ Len(runtime.spawned["refresh"]) = 1
  /\ Len(runtime.spawned["server"]) = 1
  /\ DOMAIN nodes = {"n1", "n2"}
  /\ nodes["n2"].state = "Stopped"

InShutdown(c) == runtime.callers[c].op = "shutdown"

(* C39: shutdown_graph_runtime terminates under every interleaving with    *)
(* calls of start_graph_runtime, and when it returns no refresh thread     *)
(* that was there when it was called is still running.                     *)
C39_ShutdownTerminates ==
  /\ \A c \in RuntimeCallers : InShutdown(c) ~> ~InShutdown(c)
  /\ [][\A c \in RuntimeCallers :
          (InShutdown(c) /\ ~InShutdown(c)') =>
             \A i \in 1..runtime.callers[c].before :
                runtime'.spawned["refresh"][i] = "exited"]_vars

====
